---- MODULE Spec2Model ----
(***************************************************************************)
(* Model of the contact-form validation engine of the ThermoCool landing   *)
(* page (scripts/form-validation.js): the rule table VALIDATION_RULES, the *)
(* field evaluator validateField and the form evaluator validateForm; and  *)
(* of the scripts that use a form: the submission handler of README.md,    *)
(* the contact form of scripts/main.js and the components of               *)
(* unnamed/part_000.                                                       *)
(*                                                                         *)
(* A JavaScript string is a sequence of characters, each character a       *)
(* one-character TLA+ string; a character outside the Basic Multilingual   *)
(* Plane is one element that counts for two UTF-16 code units.             *)
(***************************************************************************)
EXTENDS Integers, Sequences, FiniteSets, TLC

(***************************************************************************)
(* Bounds of the model.                                                    *)
(***************************************************************************)
\* longest raw value that is enumerated exhaustively over Alphabet
MaxLen == 3

\* the count of completed calls saturates here
MaxCalls == 1

\* the number of times the clock is advanced by an event other than a timer
MaxTicks == 1

\* the number of calls of a debounced validator
MaxDebouncedCalls == 3

\* the number of times time passes between the calls of a debounced validator
MaxWaits == 2

\* the init() calls of a component that register listeners
MaxInits == 2

(***************************************************************************)
(* The state.                                                              *)
(***************************************************************************)
VARIABLES
  pc,         \* "idle", or "returned" while the caller holds a result
  call,       \* the call at hand: its operation and arguments
  result,     \* the object the call returned, or the exception it threw
  trace,      \* what the call executed: the checks reached, the fields evaluated
  console,    \* the lines the call wrote with console.warn
  lastIndex,  \* lastIndex of each rule pattern
  completed,  \* the number of calls made before the one at hand, up to MaxCalls
  ruleTable,  \* the object VALIDATION_RULES: per key, the properties of its rule
  formState,     \* README.md: formState, its isSubmitting and lastSubmission
  RATE_LIMIT,    \* README.md: RATE_LIMIT, its attempts among them
  dom,           \* README.md: the form, its controls' values and its submit button
  localStorage,  \* the items of window.localStorage
  clock,         \* Date.now(), and how often it was advanced
  apiCalls,      \* README.md: the simulateApiCall timers that have not fired
  handled,       \* README.md: what the last submit event or timer did
  debounced,     \* a validator made by createDebouncedValidator, its timers and calls
  contactForm,   \* main.js: the contact form, its inputs, form groups and focus
  components     \* part_000: SmoothScroller, FormEnhancer and the listeners of the page

\* the state of the validation engine
engineVars == <<pc, call, result, trace, console, lastIndex, completed, ruleTable>>

\* the state of the page that README.md scripts
pageVars == <<formState, RATE_LIMIT, dom, localStorage, clock, apiCalls, handled>>

\* the state of the scripts that use the validation engine
scriptVars == <<debounced>>

\* the state of the page that main.js and the components script
uiVars == <<contactForm, components>>

vars == <<engineVars, pageVars, scriptVars, uiVars>>

(***************************************************************************)
(* Strings.                                                                *)
(***************************************************************************)
\* the characters of a string literal
Chars(s) == [i \in 1..Len(s) |-> SubSeq(s, i, i)]

\* n copies of the character c
Rep(c, n) == [i \in 1..n |-> c]

\* JavaScript null
null == "null"

\* JavaScript undefined, where a string is expected
Undefined == <<"undefined">>

\* typeof value === 'string'
IsString(value) == value # Undefined

\* the TypeError thrown by a method call on undefined
TypeError == [exception |-> "TypeError"]

\* the call ended by throwing
Threw(outcome) == "exception" \in DOMAIN outcome

\* WhiteSpace and LineTerminator code points: what \s matches and trim() strips
WhiteSpace == {" ", "\t", "\n"}

\* a code point above U+FFFF: two UTF-16 code units
Astral == {"U+1F600"}

IsWhite(c) == c \in WhiteSpace

IsAstral(c) == c \in Astral

UpperCase == Chars("ABCDEFGHIJKLMNOPQRSTUVWXYZ")

LowerCase == Chars("abcdefghijklmnopqrstuvwxyz")

\* [A-Z]
IsUpper(c) == \E i \in 1..26 : UpperCase[i] = c

\* [a-z]
IsLower(c) == \E i \in 1..26 : LowerCase[i] = c

\* [a-zA-Z]
IsLetter(c) == IsUpper(c) \/ IsLower(c)

\* \d
IsDigit(c) == c \in {"0", "1", "2", "3", "4", "5", "6", "7", "8", "9"}

\* \w
IsWordChar(c) == IsLetter(c) \/ IsDigit(c) \/ c = "_"

\* String.prototype.length: the number of UTF-16 code units
JSLength(s) == Len(s) + Len(SelectSeq(s, IsAstral))

\* String.prototype.toLowerCase, one character
LowerChar(c) == IF IsUpper(c) THEN LowerCase[CHOOSE i \in 1..26 : UpperCase[i] = c] ELSE c

\* String.prototype.toUpperCase, one character
UpperChar(c) == IF IsLower(c) THEN UpperCase[CHOOSE i \in 1..26 : LowerCase[i] = c] ELSE c

\* String.prototype.toLowerCase
ToLowerCase(s) == [i \in 1..Len(s) |-> LowerChar(s[i])]

\* the number of leading whitespace characters of s
LeadingWhite(s) ==
  CHOOSE k \in 0..Len(s) :
    /\ \A i \in 1..k : IsWhite(s[i])
    /\ (k = Len(s) \/ ~IsWhite(s[k + 1]))

\* the number of trailing whitespace characters of s
TrailingWhite(s) ==
  CHOOSE k \in 0..Len(s) :
    /\ \A i \in (Len(s) - k + 1)..Len(s) : IsWhite(s[i])
    /\ (k = Len(s) \/ ~IsWhite(s[Len(s) - k]))

\* String.prototype.trim
Trim(s) ==
  IF LeadingWhite(s) = Len(s) THEN <<>>
  ELSE SubSeq(s, LeadingWhite(s) + 1, Len(s) - TrailingWhite(s))

\* s.replace(/\s+/g, ' '): every maximal run of whitespace becomes one space
CollapseWhite(s) ==
  LET marked == [i \in 1..Len(s) |->
                   [ch |-> IF IsWhite(s[i]) THEN " " ELSE s[i],
                    drop |-> IsWhite(s[i]) /\ i > 1 /\ IsWhite(s[i - 1])]]
      Keep(m) == ~m.drop
      kept == SelectSeq(marked, Keep)
  IN  [i \in 1..Len(kept) |-> kept[i].ch]

\* s.slice(from - 1, from - 1 + Len(w)) equals w, ignoring case (flag i)
MatchesAtIgnoreCase(s, from, w) ==
  /\ from >= 1
  /\ from + Len(w) - 1 <= Len(s)
  /\ \A i \in 1..Len(w) : LowerChar(s[from + i - 1]) = LowerChar(w[i])

\* s contains w as a substring, ignoring case
ContainsIgnoreCase(s, w) == \E p \in 1..Len(s) : MatchesAtIgnoreCase(s, p, w)

(***************************************************************************)
(* The rule table.  A rule is a record of its declared properties; the    *)
(* function-valued properties (sanitize, pattern, additionalValidation)    *)
(* hold the name of the function, applied by the operators below.          *)
(* VALIDATION_RULES is the object literal of the source; ruleTable is the  *)
(* object it creates, which the functions read.                            *)
(***************************************************************************)
VALIDATION_RULES ==
  [name |->
     [required |-> TRUE, minLength |-> 2, maxLength |-> 100, pattern |-> "name",
      message |-> "Please enter a valid name (letters, spaces, hyphens, and apostrophes only)",
      sanitize |-> "trimCollapse"],
   email |->
     [required |-> TRUE, pattern |-> "email", maxLength |-> 254,
      message |-> "Please enter a valid email address",
      sanitize |-> "trimLower", additionalValidation |-> "email"],
   phone |->
     [required |-> TRUE, pattern |-> "phone", minLength |-> 10, maxLength |-> 20,
      message |-> "Please enter a valid phone number",
      sanitize |-> "trim", additionalValidation |-> "phone"],
   service |->
     [required |-> TRUE, message |-> "Please select a service",
      allowedValues |-> <<Chars("ac-installation"), Chars("ac-repair"),
                          Chars("ac-maintenance"), Chars("heating-installation"),
                          Chars("heating-repair"), Chars("emergency-service"),
                          Chars("other")>>,
      sanitize |-> "trim", additionalValidation |-> "service"],
   message |->
     [required |-> FALSE, maxLength |-> 1000, minLength |-> 0,
      message |-> "Message must not exceed 1000 characters",
      sanitize |-> "trimCollapse", additionalValidation |-> "message"]]

\* the keys in alphabetical order, as a plausible slip
RuleKeysSorted == <<"email", "message", "name", "phone", "service">>

\* Object.keys(VALIDATION_RULES): the own keys in declaration order
RuleKeys == <<"name", "email", "phone", "service", "message">>

\* the own keys as a set
RuleKeySet == {RuleKeys[i] : i \in 1..Len(RuleKeys)}

\* a property every object literal inherits from Object.prototype
ObjectPrototypeKeys == {"constructor"}

\* VALIDATION_RULES[fieldName] is truthy: an own rule or an inherited property
HasRules(fieldName) == fieldName \in RuleKeySet \cup ObjectPrototypeKeys

\* rules.<prop> !== undefined
Has(rules, prop) == prop \in DOMAIN rules

\* VALIDATION_RULES[fieldName], as the record of the rule properties it has:
\* an inherited property is an object with none of them
LookupRules(fieldName) ==
  IF fieldName \in RuleKeySet THEN ruleTable[fieldName] ELSE <<>>

\* a missing minLength defaulted in place, as a plausible slip
RuleAfterCallDefaulted(rules) ==
  IF Has(rules, "minLength") THEN rules
  ELSE [p \in DOMAIN rules \cup {"minLength"} |->
          IF p = "minLength" THEN 0 ELSE rules[p]]

\* the rule object after validateField has used it: no statement of
\* validateField or of a rule function assigns to it
RuleAfterCall(rules) == rules

\* the rule table after validateField was called for each of the keys
TableAfter(table, keys) ==
  [f \in DOMAIN table |-> IF f \in keys THEN RuleAfterCall(table[f]) ELSE table[f]]

\* rules.required, as a truth value (undefined is falsy)
IsRequired(rules) == Has(rules, "required") /\ rules.required

(***************************************************************************)
(* The sanitizers.                                                         *)
(***************************************************************************)
\* value.replace(/^\s|\s$/g, ''): at most one whitespace stripped at each end
TrimOnce(s) ==
  LET lead == IF Len(s) >= 1 /\ IsWhite(s[1]) THEN 1 ELSE 0
      trail == IF Len(s) >= 2 /\ IsWhite(s[Len(s)]) THEN 1 ELSE 0
  IN  SubSeq(s, lead + 1, Len(s) - trail)

\* sanitizers that strip one whitespace character instead of all, as a
\* plausible slip
SanitizeTrimOnce(rules, value) ==
  IF ~Has(rules, "sanitize") THEN TrimOnce(value)
  ELSE CASE rules.sanitize = "trimCollapse" -> CollapseWhite(TrimOnce(value))
         [] rules.sanitize = "trimLower" -> ToLowerCase(TrimOnce(value))
         [] rules.sanitize = "trim" -> TrimOnce(value)

\* rules.sanitize ? rules.sanitize(value) : value.trim()
Sanitize(rules, value) ==
  IF ~Has(rules, "sanitize") THEN Trim(value)
  ELSE CASE rules.sanitize = "trimCollapse" -> CollapseWhite(Trim(value))
         [] rules.sanitize = "trimLower" -> ToLowerCase(Trim(value))
         [] rules.sanitize = "trim" -> Trim(value)

(***************************************************************************)
(* The rule patterns.  The three pattern objects live as long as the rule  *)
(* table; every one is anchored at both ends.                              *)
(***************************************************************************)
PatternIds == {"name", "email", "phone"}

\* /^[\w\s'-]+$/, as a plausible slip
NamePatternMatchesWord(s) ==
  /\ Len(s) >= 1
  /\ \A i \in 1..Len(s) : IsWordChar(s[i]) \/ IsWhite(s[i]) \/ s[i] \in {"'", "-"}

\* /^[a-zA-Z\s'-]+$/
NamePatternMatches(s) ==
  /\ Len(s) >= 1
  /\ \A i \in 1..Len(s) : IsLetter(s[i]) \/ IsWhite(s[i]) \/ s[i] \in {"'", "-"}

\* [^\s@]+ over s[from..to]
NoWhiteNoAt(s, from, to) ==
  /\ from <= to
  /\ \A i \in from..to : ~IsWhite(s[i]) /\ s[i] # "@"

\* /^[^\s@]+@[^\s@]+\.[^\s@]+$/
EmailPatternMatches(s) ==
  \E i \in 1..Len(s) :
    /\ s[i] = "@"
    /\ NoWhiteNoAt(s, 1, i - 1)
    /\ \E j \in (i + 1)..Len(s) :
         /\ s[j] = "."
         /\ NoWhiteNoAt(s, i + 1, j - 1)
         /\ NoWhiteNoAt(s, j + 1, Len(s))

\* /^[\d\s\-\(\)\+]+$/
PhonePatternMatches(s) ==
  /\ Len(s) >= 1
  /\ \A i \in 1..Len(s) : IsDigit(s[i]) \/ IsWhite(s[i]) \/ s[i] \in {"-", "(", ")", "+"}

\* the pattern matches the whole of s
PatternMatches(id, s) ==
  CASE id = "name" -> NamePatternMatches(s)
    [] id = "email" -> EmailPatternMatches(s)
    [] id = "phone" -> PhonePatternMatches(s)

\* a pattern with the g flag, as a plausible slip
PatternGlobalWithFlag(id) == id = "name"

\* the pattern literal carries the g flag: none of the three does
PatternGlobal(id) == FALSE

\* RegExp.prototype.test of an anchored pattern whose lastIndex is li: a
\* global pattern starts the search at lastIndex and moves lastIndex to the
\* end of the match (0 on failure); any other pattern ignores lastIndex
PatternTest(id, s, li) ==
  LET matched == IF PatternGlobal(id) THEN li = 0 /\ PatternMatches(id, s)
                 ELSE PatternMatches(id, s)
  IN  [matched |-> matched,
       lastIndex |-> IF PatternGlobal(id)
                     THEN (IF matched THEN JSLength(s) ELSE 0)
                     ELSE li]

(***************************************************************************)
(* The custom checks (additionalValidation).                               *)
(***************************************************************************)
\* /\.\./.test(value)
HasConsecutiveDots(value) ==
  \E i \in 1..(Len(value) - 1) : value[i] = "." /\ value[i + 1] = "."

\* value.split('@')[0]
LocalPart(value) ==
  IF \E i \in 1..Len(value) : value[i] = "@"
  THEN SubSeq(value, 1,
              (CHOOSE i \in 1..Len(value) :
                 value[i] = "@" /\ \A j \in 1..(i - 1) : value[j] # "@") - 1)
  ELSE value

\* a local part of 64 characters refused, as a plausible slip
EmailAdditionalValidationOffByOne(value) ==
  IF HasConsecutiveDots(value) THEN "Email cannot contain consecutive dots"
  ELSE IF JSLength(LocalPart(value)) >= 64 THEN "Email local part too long"
  ELSE null

EmailAdditionalValidation(value) ==
  IF HasConsecutiveDots(value) THEN "Email cannot contain consecutive dots"
  ELSE IF JSLength(LocalPart(value)) > 64 THEN "Email local part too long"
  ELSE null

\* value.replace(/\D/g, '')
Digits(value) == SelectSeq(value, IsDigit)

\* sixteen digits let through, as a plausible slip
PhoneAdditionalValidationOffByOne(value) ==
  IF Len(Digits(value)) < 10 THEN "Phone number must contain at least 10 digits"
  ELSE IF Len(Digits(value)) > 16 THEN "Phone number must not exceed 15 digits"
  ELSE null

PhoneAdditionalValidation(value) ==
  IF Len(Digits(value)) < 10 THEN "Phone number must contain at least 10 digits"
  ELSE IF Len(Digits(value)) > 15 THEN "Phone number must not exceed 15 digits"
  ELSE null

\* a comparison that ignores case, as a plausible slip
IncludesIgnoreCase(list, value) ==
  \E i \in 1..Len(list) : ToLowerCase(list[i]) = ToLowerCase(value)

\* rules.allowedValues.includes(value)
Includes(list, value) == \E i \in 1..Len(list) : list[i] = value

ServiceAdditionalValidation(value, rules) ==
  IF ~Includes(rules.allowedValues, value) THEN "Please select a valid service option"
  ELSE null

\* /https?:\/\/[^\s]+/i matches at position p of s
UrlStartsAt(s, p) ==
  \E k \in {4, 5} :
    /\ MatchesAtIgnoreCase(s, p, Chars("http"))
    /\ (k = 5 => MatchesAtIgnoreCase(s, p + 4, Chars("s")))
    /\ MatchesAtIgnoreCase(s, p + k, Chars("://"))
    /\ p + k + 3 <= Len(s)
    /\ ~IsWhite(s[p + k + 3])

\* the position after the greedy match [^\s]+ that begins at or before p
NextWhite(s, p) ==
  IF \E q \in p..Len(s) : IsWhite(s[q])
  THEN CHOOSE q \in p..Len(s) : IsWhite(s[q]) /\ \A r \in p..(q - 1) : ~IsWhite(s[r])
  ELSE Len(s) + 1

\* value.match(/https?:\/\/[^\s]+/gi): the number of matches found by
\* scanning left to right from position from, each scan resuming after the
\* previous match
RECURSIVE UrlMatchCount(_, _)
UrlMatchCount(s, from) ==
  LET starts == {p \in from..Len(s) : UrlStartsAt(s, p)}
  IN  IF starts = {} THEN 0
      ELSE LET p == CHOOSE x \in starts : \A y \in starts : x <= y
           IN  1 + UrlMatchCount(s, NextWhite(s, p))

\* /<script/gi.test(value) on a pattern object whose lastIndex is 0
ScriptPatternTest(value) == ContainsIgnoreCase(value, Chars("<script"))

SpamWords == <<Chars("viagra"), Chars("cialis"), Chars("casino"), Chars("lottery")>>

\* \b before position p of s (p = Len(s) + 1: at the end)
WordBoundary(s, p) ==
  LET before == p > 1 /\ IsWordChar(s[p - 1])
      after == p <= Len(s) /\ IsWordChar(s[p])
  IN  before # after

\* /\b(viagra|cialis|casino|lottery)\b/gi.test(value), lastIndex 0
SpamPatternTest(value) ==
  \E p \in 1..Len(value) : \E w \in 1..Len(SpamWords) :
    /\ MatchesAtIgnoreCase(value, p, SpamWords[w])
    /\ WordBoundary(value, p)
    /\ WordBoundary(value, p + Len(SpamWords[w]))

\* the loop over all of suspiciousPatterns, the URL pattern included, as a
\* plausible slip
MessageAdditionalValidationWholeList(value) ==
  IF UrlMatchCount(value, 1) > 2 THEN "Message contains too many links"
  ELSE IF UrlMatchCount(value, 1) > 0 THEN "Message contains prohibited content"
  ELSE IF ScriptPatternTest(value) THEN "Message contains prohibited content"
  ELSE IF SpamPatternTest(value) THEN "Message contains prohibited content"
  ELSE null

\* the patterns are created by every call, so each test starts at lastIndex 0;
\* the loop runs over suspiciousPatterns.slice(1): the script and spam patterns
MessageAdditionalValidation(value) ==
  IF UrlMatchCount(value, 1) > 2 THEN "Message contains too many links"
  ELSE IF ScriptPatternTest(value) THEN "Message contains prohibited content"
  ELSE IF SpamPatternTest(value) THEN "Message contains prohibited content"
  ELSE null

\* rules.additionalValidation(sanitizedValue, rules)
AdditionalValidation(rules, value) ==
  CASE rules.additionalValidation = "email" -> EmailAdditionalValidation(value)
    [] rules.additionalValidation = "phone" -> PhoneAdditionalValidation(value)
    [] rules.additionalValidation = "service" -> ServiceAdditionalValidation(value, rules)
    [] rules.additionalValidation = "message" -> MessageAdditionalValidation(value)

(***************************************************************************)
(* validateField.                                                          *)
(***************************************************************************)
\* the string literal of a sequence of characters
RECURSIVE Join(_)
Join(chars) == IF chars = <<>> THEN "" ELSE Head(chars) \o Join(Tail(chars))

\* nameMap[fieldName] || fieldName.charAt(0).toUpperCase() + fieldName.slice(1)
FormatFieldName(fieldName) ==
  LET nameMap == [name |-> "Name", email |-> "Email", phone |-> "Phone",
                  service |-> "Service", message |-> "Message"]
  IN  IF fieldName \in DOMAIN nameMap THEN nameMap[fieldName]
      ELSE IF fieldName = "" THEN ""
      ELSE Join(<<UpperChar(Head(Chars(fieldName)))>> \o Tail(Chars(fieldName)))

\* a failure branch that leaves the error out, as a plausible slip
FailureWithoutError(error, sanitizedValue) ==
  [valid |-> FALSE, error |-> null, sanitizedValue |-> sanitizedValue]

\* the object a failing check returns
Failure(error, sanitizedValue) ==
  [valid |-> FALSE, error |-> error, sanitizedValue |-> sanitizedValue]

\* the object returned when the field is accepted
Success(sanitizedValue) ==
  [valid |-> TRUE, error |-> null, sanitizedValue |-> sanitizedValue]

\* the checks read the raw value, as a plausible slip
SubjectRaw(value, sanitizedValue) == value

\* the string every check after sanitization reads: sanitizedValue, not value
Subject(value, sanitizedValue) == sanitizedValue

\* the custom check ahead of the pattern check, as a plausible slip
CheckOrderCustomFirst ==
  <<"required", "optional", "minLength", "maxLength", "custom", "pattern">>

\* the optional-and-empty shortcut left out, as a plausible slip
CheckOrderNoOptional == <<"required", "minLength", "maxLength", "pattern", "custom">>

\* the length check ahead of the required check, as a plausible slip
CheckOrderLengthFirst ==
  <<"minLength", "required", "optional", "maxLength", "pattern", "custom">>

\* the if statements of validateField after sanitization, in program order
CheckOrder == <<"required", "optional", "minLength", "maxLength", "pattern", "custom">>

\* One if statement of validateField on the string s: done tells whether it
\* returns, result what it returns, lastIndex the lastIndex of the rule
\* patterns after it, invoked whether it called rules.additionalValidation.
Check(check, fieldName, rules, s, sanitizedValue, li) ==
  LET Go == [done |-> FALSE, result |-> Success(sanitizedValue), lastIndex |-> li,
             invoked |-> FALSE]
      Ret(r) == [done |-> TRUE, result |-> r, lastIndex |-> li, invoked |-> FALSE]
  IN  CASE check = "required" ->
             IF IsRequired(rules) /\ s = <<>>
             THEN Ret(Failure(FormatFieldName(fieldName) \o " is required", sanitizedValue))
             ELSE Go
        [] check = "optional" ->
             IF s = <<>> /\ ~IsRequired(rules) THEN Ret(Success(sanitizedValue)) ELSE Go
        [] check = "minLength" ->
             IF Has(rules, "minLength") /\ JSLength(s) < rules.minLength
             THEN Ret(Failure(FormatFieldName(fieldName) \o " must be at least "
                              \o ToString(rules.minLength) \o " characters", sanitizedValue))
             ELSE Go
        [] check = "maxLength" ->
             IF Has(rules, "maxLength") /\ JSLength(s) > rules.maxLength
             THEN Ret(Failure(FormatFieldName(fieldName) \o " must not exceed "
                              \o ToString(rules.maxLength) \o " characters", sanitizedValue))
             ELSE Go
        [] check = "pattern" ->
             IF ~Has(rules, "pattern") THEN Go
             ELSE LET t == PatternTest(rules.pattern, s, li[rules.pattern])
                      li2 == [li EXCEPT ![rules.pattern] = t.lastIndex]
                  IN  IF ~t.matched
                      THEN [done |-> TRUE, result |-> Failure(rules.message, sanitizedValue),
                            lastIndex |-> li2, invoked |-> FALSE]
                      ELSE [Go EXCEPT !.lastIndex = li2]
        [] check = "custom" ->
             IF ~Has(rules, "additionalValidation") THEN Go
             ELSE LET additionalError == AdditionalValidation(rules, s)
                  IN  IF additionalError # null
                      THEN [done |-> TRUE, result |-> Failure(additionalError, sanitizedValue),
                            lastIndex |-> li, invoked |-> TRUE]
                      ELSE [Go EXCEPT !.invoked = TRUE]

\* the if statements from the i-th on; checks lists the statements reached
RECURSIVE RunChecks(_, _, _, _, _, _, _, _)
RunChecks(i, fieldName, rules, value, sanitizedValue, li, checks, invoked) ==
  IF i > Len(CheckOrder)
  THEN [result |-> Success(sanitizedValue), checks |-> checks, invoked |-> invoked,
        lastIndex |-> li, console |-> <<>>]
  ELSE LET c == Check(CheckOrder[i], fieldName, rules, Subject(value, sanitizedValue),
                      sanitizedValue, li)
       IN  IF c.done
           THEN [result |-> c.result, checks |-> Append(checks, CheckOrder[i]),
                 invoked |-> invoked \/ c.invoked, lastIndex |-> c.lastIndex,
                 console |-> <<>>]
           ELSE RunChecks(i + 1, fieldName, rules, value, sanitizedValue, c.lastIndex,
                          Append(checks, CheckOrder[i]), invoked \/ c.invoked)

\* validateField(fieldName, value) when the rule patterns have lastIndex li:
\* result is the returned object (the TypeError of value.trim() when value is
\* not a string and the field has a rule), checks the if statements it reached after
\* sanitizing, invoked whether the custom check was called, console what it
\* wrote to the console, lastIndex the lastIndex of the rule patterns afterwards
validateField(fieldName, value, li) ==
  IF ~HasRules(fieldName)
  THEN [result |-> Success(value), checks |-> <<>>, invoked |-> FALSE, lastIndex |-> li,
        console |-> <<"No validation rules defined for field: " \o fieldName>>]
  ELSE IF ~IsString(value)
  THEN [result |-> TypeError, checks |-> <<>>, invoked |-> FALSE, lastIndex |-> li,
        console |-> <<>>]
  ELSE RunChecks(1, fieldName, LookupRules(fieldName), value,
                 Sanitize(LookupRules(fieldName), value), li, <<>>, FALSE)

(***************************************************************************)
(* validateForm.                                                           *)
(***************************************************************************)
\* formData[fieldName] without the default, as a plausible slip
FormValueNoDefault(formData, fieldName) ==
  IF fieldName \in DOMAIN formData THEN formData[fieldName] ELSE Undefined

\* formData[fieldName] || ''
FormValue(formData, fieldName) ==
  IF fieldName \in DOMAIN formData THEN formData[fieldName] ELSE <<>>

\* errors.set(key, error) on a Map kept as the sequence of its entries in
\* insertion order
MapSet(entries, key, error) ==
  IF \E i \in 1..Len(entries) : entries[i][1] = key
  THEN [i \in 1..Len(entries) |->
          IF entries[i][1] = key THEN <<key, error>> ELSE entries[i]]
  ELSE Append(entries, <<key, error>>)

\* the keys of a Map
MapKeys(entries) == {entries[i][1] : i \in 1..Len(entries)}

\* every key of the record, known or not, as a plausible slip
FormKeysOfRecord(formData) ==
  LET InRecord(k) == k \in DOMAIN formData
  IN  SelectSeq(RuleKeys \o <<"company">>, InRecord)

\* the field names validateForm iterates over: Object.keys(VALIDATION_RULES)
FormKeys(formData) == RuleKeys

\* isValid becomes the validity of the field at hand, as a plausible slip
FormStepLastWins(acc, fieldName, r) ==
  [valid |-> r.valid,
   errors |-> IF ~r.valid THEN MapSet(acc.errors, fieldName, r.error) ELSE acc.errors,
   sanitizedData |-> (fieldName :> r.sanitizedValue) @@ acc.sanitizedData]

\* the body of the forEach callback after the call of validateField, whose
\* result is r
FormStep(acc, fieldName, r) ==
  [valid |-> IF ~r.valid THEN FALSE ELSE acc.valid,
   errors |-> IF ~r.valid THEN MapSet(acc.errors, fieldName, r.error) ELSE acc.errors,
   sanitizedData |-> (fieldName :> r.sanitizedValue) @@ acc.sanitizedData]

\* the forEach loop from the i-th key on: acc holds isValid, errors and
\* sanitizedData, calls the validateField calls made so far; an exception of
\* validateField ends the loop and the call
RECURSIVE FormLoop(_, _, _, _, _, _, _)
RECURSIVE FormCallback(_, _, _, _, _, _, _)
FormLoop(i, keys, formData, acc, li, calls, written) ==
  IF i > Len(keys)
  THEN [result |-> acc, calls |-> calls, lastIndex |-> li, console |-> written]
  ELSE FormCallback(i, keys, formData, acc, calls, written,
                    validateField(keys[i], FormValue(formData, keys[i]), li))

\* the forEach callback for the i-th key once validateField has returned r
FormCallback(i, keys, formData, acc, calls, written, r) ==
  IF Threw(r.result)
  THEN [result |-> r.result,
        calls |-> Append(calls, <<keys[i], FormValue(formData, keys[i])>>),
        lastIndex |-> r.lastIndex, console |-> written \o r.console]
  ELSE FormLoop(i + 1, keys, formData, FormStep(acc, keys[i], r.result), r.lastIndex,
                Append(calls, <<keys[i], FormValue(formData, keys[i])>>),
                written \o r.console)

\* validateForm(formData) when the rule patterns have lastIndex li
validateForm(formData, li) ==
  FormLoop(1, FormKeys(formData), formData,
           [valid |-> TRUE, errors |-> <<>>, sanitizedData |-> <<>>], li, <<>>, <<>>)

(***************************************************************************)
(* validateFieldsFast.                                                     *)
(***************************************************************************)
\* the for-of loop over Object.entries(fields) from the i-th entry on; an
\* entry is <<fieldName, value>>; calls lists the validateField calls made
RECURSIVE FastLoop(_, _, _, _, _)
RECURSIVE FastBody(_, _, _, _, _)
FastLoop(i, entries, li, calls, written) ==
  IF i > Len(entries)
  THEN [result |-> null, calls |-> calls, lastIndex |-> li, console |-> written]
  ELSE FastBody(i, entries, Append(calls, entries[i]), written,
                validateField(entries[i][1], entries[i][2], li))

\* the name of the first entry returned with the result, as a plausible slip
FastBodyFirstName(i, entries, made, written, r) ==
  IF Threw(r.result)
  THEN [result |-> r.result, calls |-> made, lastIndex |-> r.lastIndex,
        console |-> written \o r.console]
  ELSE IF ~r.result.valid
  THEN [result |-> [fieldName |-> entries[1][1], valid |-> r.result.valid,
                    error |-> r.result.error,
                    sanitizedValue |-> r.result.sanitizedValue],
        calls |-> made, lastIndex |-> r.lastIndex, console |-> written \o r.console]
  ELSE FastLoop(i + 1, entries, r.lastIndex, made, written \o r.console)

\* the loop body for the i-th entry once validateField has returned r
FastBody(i, entries, made, written, r) ==
  IF Threw(r.result)
  THEN [result |-> r.result, calls |-> made, lastIndex |-> r.lastIndex,
        console |-> written \o r.console]
  ELSE IF ~r.result.valid
  THEN [result |-> [fieldName |-> entries[i][1], valid |-> r.result.valid,
                    error |-> r.result.error,
                    sanitizedValue |-> r.result.sanitizedValue],
        calls |-> made, lastIndex |-> r.lastIndex, console |-> written \o r.console]
  ELSE FastLoop(i + 1, entries, r.lastIndex, made, written \o r.console)

\* validateFieldsFast(fields) when the rule patterns have lastIndex li
validateFieldsFast(entries, li) == FastLoop(1, entries, li, <<>>, <<>>)

(***************************************************************************)
(* sanitizeString.                                                         *)
(***************************************************************************)
\* values that are not strings: undefined, null, a number, an object
NonStrings == {Undefined, <<"null">>, <<"number">>, <<"object">>}

\* .slice(0, 1000)
SliceLimit == 1000

\* the first half of the surrogate pair of an astral character
HighSurrogate == "U+D83D"

\* s.replace(/[<>]/g, '')
RemoveAngleBrackets(s) ==
  LET Kept(c) == c # "<" /\ c # ">" IN SelectSeq(s, Kept)

\* the number of leading characters of s that fit into n code units
FittingPrefix(s, n) ==
  CHOOSE k \in 0..Len(s) :
    /\ JSLength(SubSeq(s, 1, k)) <= n
    /\ (k = Len(s) \/ JSLength(SubSeq(s, 1, k + 1)) > n)

\* s.slice(0, n): the first n code units of s, which end with half a
\* surrogate pair when the n-th unit begins an astral character
Slice(s, n) ==
  IF JSLength(s) <= n THEN s
  ELSE IF JSLength(SubSeq(s, 1, FittingPrefix(s, n))) < n
  THEN Append(SubSeq(s, 1, FittingPrefix(s, n)), HighSurrogate)
  ELSE SubSeq(s, 1, FittingPrefix(s, n))

\* sanitizeString(value)
sanitizeString(value) ==
  IF value \in NonStrings THEN <<>>
  ELSE Slice(CollapseWhite(RemoveAngleBrackets(Trim(value))), SliceLimit)

(***************************************************************************)
(* The callers' inputs.                                                    *)
(***************************************************************************)
\* the characters of the exhaustively enumerated raw values
Alphabet == {"a", "B", " ", "1", "@"}

\* every string over Alphabet of at most MaxLen characters
ShortValues == UNION {[1..n -> Alphabet] : n \in 0..MaxLen}

\* raw values that reach the checks no short value reaches
NamedValues ==
  {Chars("Jo"), Chars("Mary \t Ann O'Neil-Smith"), Chars("a   b"), Chars("\ta\n"),
   Rep("a", 100), Rep("a", 101), Rep("1", 101),
   Chars("  USER@Example.com "), Chars("a..b@example.com"), Chars("jo@x.com"),
   Chars("bad"), Chars("a..b"), Chars("a@b@c.d"),
   Rep("a", 64) \o Chars("@x.com"), Rep("a", 65) \o Chars("@x.com"),
   Rep("a", 248) \o Chars("@x.com"), Rep("a", 249) \o Chars("@x.com"),
   Rep("a", 248) \o Chars("@x..com"),
   Chars("555-123-4567"), Chars("(555) 123-4567"), Chars("123"), Chars("abcdefghij"),
   Chars("12345-----"), Chars("1234567890123456"), Rep("1", 21),
   Chars("555\t123\t4567"), Chars("+1 (555) 123-4567 8"),
   Chars("ac-repair"), Chars(" other "), Chars("laundry"), Chars("AC-Repair"),
   Chars("hello  there"), Chars("see http://a.b"),
   Chars("see http://a.b https://c.d"),
   Chars("http://a.b https://c.d HTTP://e.f"), Chars("xhttp://a.bhttp://c.d"),
   Chars("<SCRIPT>alert(1)"), Chars("win the Lottery now"), Chars("lottery2"),
   Rep("a", 1000), Rep("a", 1001), Chars("<script") \o Rep("a", 1000),
   Rep("U+1F600", 1), Rep("U+1F600", 501), Rep("U+1F600", 1000),
   Rep("U+1F600", 130) \o Chars("@x.com")}

\* the raw values a caller passes
Values == ShortValues \cup NamedValues

\* the characters of the short arguments of sanitizeString
SanitizeAlphabet == {"a", " ", "<", ">"}

\* the arguments of sanitizeString: the strings over SanitizeAlphabet up to
\* MaxLen, strings at the length limit, and values that are not strings
SanitizeValues ==
  UNION {[1..n -> SanitizeAlphabet] : n \in 0..MaxLen}
    \cup {Chars("<b>a</b>"), Chars("  a \t b "),
          Rep("a", SliceLimit), Rep("a", SliceLimit + 1),
          Rep("a", SliceLimit - 1) \o Chars(" b"),
          Rep("a", SliceLimit - 1) \o <<"U+1F600">>,
          Rep("<", SliceLimit) \o Chars(" a")}
    \cup NonStrings

\* the field names a caller passes: the rule keys, a name without a rule, and
\* names that Object.prototype answers
FieldNames == RuleKeySet \cup {"company"} \cup ObjectPrototypeKeys

\* marks a key that the record does not have
Absent == <<"absent">>

\* per key, the values a record may hold for it
FormChoices ==
  [name : {Absent, <<>>, Chars(" Jo "), Chars("J1")},
   email : {Absent, Chars("bad"), Chars("Jo@X.com")},
   phone : {Absent, Chars("1"), Chars("555-123-4567")},
   service : {Absent, <<>>, Chars("ac-repair"), Chars("laundry")},
   message : {Absent, <<>>, Chars("hi  there"), Chars("<script")},
   company : {Absent, Chars(" x ")}]

\* the record of a choice: the keys that are present
FormOf(choice) == [k \in {x \in DOMAIN choice : choice[x] # Absent} |-> choice[k]]

\* the records a caller passes to validateForm
FormRecords == {FormOf(choice) : choice \in FormChoices}

\* per key, the values an argument of validateFieldsFast may hold for it
FastChoices ==
  [name : {Absent, Chars(" Jo "), Chars("J1")},
   email : {Absent, Chars("bad"), Chars("Jo@X.com")},
   phone : {Absent, Chars("555-123-4567")},
   service : {Absent, Chars("laundry")},
   message : {Absent, Chars("<script")},
   company : {Absent, Chars(" x ")}]

\* the orders in which the keys were added to the argument
KeyOrders ==
  {<<"name", "email", "phone", "service", "message", "company">>,
   <<"company", "message", "service", "phone", "email", "name">>}

\* Object.entries of the record of a choice whose keys were added in the order
EntriesOf(choice, order) ==
  LET Present(k) == choice[k] # Absent
      keys == SelectSeq(order, Present)
  IN  [i \in 1..Len(keys) |-> <<keys[i], choice[keys[i]]>>]

\* the arguments a caller passes to validateFieldsFast, as their entries
FastEntries == {EntriesOf(choice, order) : choice \in FastChoices, order \in KeyOrders}

(***************************************************************************)
(* README.md: the form validation and submission handler.  The form has    *)
(* the controls Controls; each sits with its label in its own parent.      *)
(* The error elements and classes that validateField writes are read by    *)
(* no decision of the submit handler and are left out, as are the          *)
(* visibility classes of the two submission messages and their timers;     *)
(* the messages' textContent is kept.                                      *)
(***************************************************************************)
\* the later of two times
Later(a, b) == IF a >= b THEN a ELSE b

\* the validators of README.md (a pattern is named by its rule key: the three
\* patterns are those of VALIDATION_RULES)
validators ==
  [name |-> [required |-> TRUE, minLength |-> 2, maxLength |-> 100, pattern |-> "name",
             message |-> "Please enter a valid name (letters, spaces, hyphens, and apostrophes only)"],
   email |-> [required |-> TRUE, pattern |-> "email",
              message |-> "Please enter a valid email address"],
   phone |-> [required |-> TRUE, pattern |-> "phone", minLength |-> 10,
              message |-> "Please enter a valid phone number"],
   service |-> [required |-> TRUE, message |-> "Please select a service"],
   message |-> [required |-> FALSE, maxLength |-> 1000,
                message |-> "Message must not exceed 1000 characters"]]

\* the controls of the form, in document order
Controls == <<"name", "message">>

ControlSet == {Controls[i] : i \in 1..Len(Controls)}

\* the values a user gives a control
ControlValues ==
  [name |-> {<<>>, Chars("Jo")}, message |-> {<<>>, Chars("hi")}]

\* the values of the controls after form.reset(): the defaults of the markup
DefaultFields == [c \in ControlSet |-> <<>>]

\* the key of the draft in localStorage
DraftKey == "thermocool_contact_form"

\* JSON.stringify(data) for a flat object of strings
JSONStringify(data) == [json |-> data]

\* JSON.parse(text)
JSONParse(text) == text.json

\* Object.fromEntries(new FormData(form).entries())
FormDataOf(fields) == [c \in ControlSet |-> fields[c]]

\* validateField(field) of README.md, its return value: TRUE when valid
PageValidateField(fieldName, fieldValue) ==
  IF fieldName \notin DOMAIN validators THEN TRUE
  ELSE LET value == Trim(fieldValue)
           rules == validators[fieldName]
       IN  IF IsRequired(rules) /\ value = <<>> THEN FALSE
           ELSE IF value = <<>> /\ ~IsRequired(rules) THEN TRUE
           ELSE IF Has(rules, "pattern") /\ ~PatternMatches(rules.pattern, value) THEN FALSE
           ELSE IF Has(rules, "minLength") /\ rules.minLength # 0
                   /\ JSLength(value) < rules.minLength THEN FALSE
           ELSE IF Has(rules, "maxLength") /\ rules.maxLength # 0
                   /\ JSLength(value) > rules.maxLength THEN FALSE
           ELSE TRUE

\* the fields.forEach of the submit handler: every control is validated
AllFieldsValid(fields) == \A i \in 1..Len(Controls) : PageValidateField(Controls[i], fields[Controls[i]])

\* an attempt kept while it is at most windowMs old, as a plausible slip
checkRateLimitInclusive(limit, now) ==
  LET Recent(timestamp) == now - timestamp <= limit.windowMs
      kept == SelectSeq(limit.attempts, Recent)
  IN  IF Len(kept) >= limit.maxAttempts
      THEN [returned |-> FALSE, RATE_LIMIT |-> [limit EXCEPT !.attempts = kept]]
      ELSE [returned |-> TRUE, RATE_LIMIT |-> [limit EXCEPT !.attempts = Append(kept, now)]]

\* checkRateLimit() at time now: the returned value and RATE_LIMIT afterwards
checkRateLimit(limit, now) ==
  LET Recent(timestamp) == now - timestamp < limit.windowMs
      kept == SelectSeq(limit.attempts, Recent)
  IN  IF Len(kept) >= limit.maxAttempts
      THEN [returned |-> FALSE, RATE_LIMIT |-> [limit EXCEPT !.attempts = kept]]
      ELSE [returned |-> TRUE, RATE_LIMIT |-> [limit EXCEPT !.attempts = Append(kept, now)]]

\* loadFormData(form) on the fields of the markup
loadFormData(fields, storage) ==
  IF DraftKey \notin DOMAIN storage THEN fields
  ELSE LET data == JSONParse(storage[DraftKey])
       IN  [c \in DOMAIN fields |->
              IF c \in DOMAIN data /\ data[c] # <<>> THEN data[c] ELSE fields[c]]

\* localStorage.setItem(key, value)
SetItem(storage, key, value) ==
  [k \in DOMAIN storage \cup {key} |-> IF k = key THEN value ELSE storage[k]]

\* localStorage.removeItem(key)
RemoveItem(storage, key) == [k \in DOMAIN storage \ {key} |-> storage[k]]

\* localStorage without items
EmptyStorage == [k \in {} |-> <<>>]

\* the drafts an earlier visit may have left
StoredDrafts ==
  {EmptyStorage,
   SetItem(EmptyStorage, DraftKey, JSONStringify([name |-> Chars("Jo"), message |-> <<>>]))}

\* the delay of simulateApiCall's timer
ApiDelay == 1500

\* by how much the clock advances between events
TickSteps == {59999, 60000}

\* the last pass times that are remembered
Remembered == 4

\* the last Remembered elements of a sequence
LastOf(seq) == IF Len(seq) <= Remembered THEN seq ELSE SubSeq(seq, Len(seq) - Remembered + 1, Len(seq))

\* formState.lastSubmission: null is the empty sequence, a time t is <<t>>
NoSubmission == <<>>

\* the page after initializeForm() with the items of storage
PageLoaded(storage) ==
  /\ formState = [isSubmitting |-> FALSE, lastSubmission |-> NoSubmission]
  /\ RATE_LIMIT = [maxAttempts |-> 3, windowMs |-> 60000, attempts |-> <<>>]
  /\ dom = [fields |-> loadFormData(DefaultFields, storage), disabled |-> FALSE,
            loading |-> FALSE, submitting |-> FALSE, submitError |-> null,
            submitSuccess |-> null]
  /\ localStorage = storage
  /\ clock = [now |-> 0, ticks |-> 0]
  /\ apiCalls = <<>>
  /\ handled = [event |-> "load", steps |-> <<>>, passed |-> <<>>]

\* the page loaded without a draft
PageInit == PageLoaded(EmptyStorage)

\* no in-flight guard, as a plausible slip
InFlightGuardNone(state) == FALSE

\* if (formState.isSubmitting) return;
InFlightGuard(state) == state.isSubmitting

\* what the handler of an event did: the steps it took, and the times of the
\* last submit events that passed checkRateLimit
Handled(event, steps, passed) ==
  [event |-> event, steps |-> steps, passed |-> LastOf(passed)]

\* the submit handler returns at the in-flight guard
SubmitDropped ==
  /\ handled' = Handled("submit", <<"guard">>, handled.passed)
  /\ UNCHANGED <<formState, RATE_LIMIT, dom, localStorage, clock, apiCalls>>

\* the submit handler returns because checkRateLimit() returned false
SubmitRateLimited(limit) ==
  /\ RATE_LIMIT' = limit.RATE_LIMIT
  /\ dom' = [dom EXCEPT !.submitError =
               "Too many submission attempts. Please wait a moment and try again."]
  /\ handled' = Handled("submit", <<"guard", "checkRateLimit">>, handled.passed)
  /\ UNCHANGED <<formState, localStorage, clock, apiCalls>>

\* the attempt of an invalid form is not kept, as a plausible slip
SubmitInvalidUnrecorded(limit) ==
  /\ RATE_LIMIT' = [limit.RATE_LIMIT EXCEPT
                      !.attempts = SubSeq(@, 1, Len(@) - 1)]
  /\ handled' = Handled("submit", <<"guard", "checkRateLimit", "validate">>,
                        handled.passed)
  /\ UNCHANGED <<formState, dom, localStorage, clock, apiCalls>>

\* the submit handler returns because a field is invalid
SubmitInvalid(limit) ==
  /\ RATE_LIMIT' = limit.RATE_LIMIT
  /\ handled' = Handled("submit", <<"guard", "checkRateLimit", "validate">>,
                        Append(handled.passed, clock.now))
  /\ UNCHANGED <<formState, dom, localStorage, clock, apiCalls>>

\* the submit handler calls submitForm(form), which runs up to its await
SubmitStarted(limit) ==
  /\ RATE_LIMIT' = limit.RATE_LIMIT
  /\ formState' = [formState EXCEPT !.isSubmitting = TRUE]
  /\ dom' = [dom EXCEPT !.loading = TRUE, !.disabled = TRUE, !.submitting = TRUE]
  /\ apiCalls' = Append(apiCalls, [due |-> clock.now + ApiDelay,
                                   data |-> FormDataOf(dom.fields)])
  /\ handled' = Handled("submit", <<"guard", "checkRateLimit", "validate", "submitForm">>,
                        Append(handled.passed, clock.now))
  /\ UNCHANGED <<localStorage, clock>>

\* the submit handler once checkRateLimit() has returned limit
SubmitChecked(limit) ==
  IF ~limit.returned THEN SubmitRateLimited(limit)
  ELSE IF ~AllFieldsValid(dom.fields) THEN SubmitInvalid(limit)
  ELSE SubmitStarted(limit)

\* a submit event of the form
Submit ==
  /\ IF InFlightGuard(formState) THEN SubmitDropped
     ELSE SubmitChecked(checkRateLimit(RATE_LIMIT, clock.now))
  /\ UNCHANGED <<engineVars, scriptVars, uiVars>>

\* the loading state kept when the call failed, as a plausible slip
FinallyOnSuccessOnly(succeeded, flag) == IF succeeded THEN FALSE ELSE flag

\* the finally block of submitForm: isSubmitting, disabled and the two
\* loading classes are reset, whatever flag held and however the call ended
Finally(succeeded, flag) == FALSE

\* the draft removed however the call ended, as a plausible slip
StorageAfterAlwaysCleared(succeeded, storage) == RemoveItem(storage, DraftKey)

\* clearFormData() in the try block of submitForm, after the await
StorageAfter(succeeded, storage) ==
  IF succeeded THEN RemoveItem(storage, DraftKey) ELSE storage

\* the timer of the oldest simulateApiCall fires, at its due time or later,
\* Math.random() decides, and submitForm resumes after its await: the try
\* block when succeeded, the catch block otherwise, then the finally block
ApiSettles(succeeded) ==
  /\ apiCalls # <<>>
  /\ apiCalls' = Tail(apiCalls)
  /\ clock' = [clock EXCEPT !.now = Later(clock.now, Head(apiCalls).due)]
  /\ formState' = [isSubmitting |-> Finally(succeeded, formState.isSubmitting),
                   lastSubmission |-> IF succeeded THEN <<clock'.now>>
                                      ELSE formState.lastSubmission]
  /\ localStorage' = StorageAfter(succeeded, localStorage)
  /\ dom' = [fields |-> IF succeeded THEN DefaultFields ELSE dom.fields,
             disabled |-> Finally(succeeded, dom.disabled),
             loading |-> Finally(succeeded, dom.loading),
             submitting |-> Finally(succeeded, dom.submitting),
             submitError |-> IF succeeded THEN dom.submitError
                             ELSE "Unable to submit form. Please try again later.",
             submitSuccess |-> IF succeeded
                               THEN "Thank you for contacting us! We will get back to you within 24 hours."
                               ELSE dom.submitSuccess]
  /\ handled' = Handled("api", <<IF succeeded THEN "success" ELSE "error", "finally">>,
                        handled.passed)
  /\ UNCHANGED RATE_LIMIT
  /\ UNCHANGED <<engineVars, scriptVars, uiVars>>

\* an input event on a control whose value the user has made value: the
\* listener of setupFormPersistence saves the form
Input(control, value) ==
  /\ dom.fields[control] # value
  /\ dom' = [dom EXCEPT !.fields[control] = value]
  /\ localStorage' = SetItem(localStorage, DraftKey, JSONStringify(FormDataOf(dom'.fields)))
  /\ UNCHANGED <<formState, RATE_LIMIT, clock, apiCalls, handled>>
  /\ UNCHANGED <<engineVars, scriptVars, uiVars>>

\* time passes
Tick(step) ==
  /\ clock.ticks < MaxTicks
  /\ clock' = [now |-> clock.now + step, ticks |-> clock.ticks + 1]
  /\ UNCHANGED <<formState, RATE_LIMIT, dom, localStorage, apiCalls, handled>>
  /\ UNCHANGED <<engineVars, scriptVars, uiVars>>

(***************************************************************************)
(* createDebouncedValidator: a validator made with validateField as its    *)
(* validation function and the default delay.  A call is kept with the     *)
(* time it was made at, its arguments, how often the validation function   *)
(* was invoked for it and with what, and the value its promise resolved    *)
(* with; an absent value is the empty sequence, a value v is <<v>>.        *)
(***************************************************************************)
\* delay = 300
DebounceDelay == 300

\* by how much time advances between the calls
WaitSteps == {100, 300}

\* the arguments of the calls
DebouncedArgs == {<<"name", Chars("Jo")>>, <<"name", Chars("J")>>, <<"email", Chars("bad")>>}

\* validationFn(...args)
validationFn(args) == validateField(args[1], args[2], [id \in PatternIds |-> 0]).result

\* the state after createDebouncedValidator(validateField)
DebouncedInit ==
  debounced = [timeoutId |-> <<>>, timers |-> {}, nextTimer |-> 1, calls |-> <<>>,
               now |-> 0, waits |-> 0]

\* the timer stays set, as a plausible slip
ClearTimeoutKept(timers, timeoutId) == timers

\* if (timeoutId) clearTimeout(timeoutId)
ClearTimeout(timers, timeoutId) ==
  IF timeoutId = <<>> THEN timers ELSE {t \in timers : t.id # timeoutId[1]}

\* a call of the debounced validator: the executor of its promise
CallDebounced(args) ==
  /\ Len(debounced.calls) < MaxDebouncedCalls
  /\ debounced' =
       [debounced EXCEPT
          !.timers = ClearTimeout(@, debounced.timeoutId)
                       \cup {[id |-> debounced.nextTimer,
                              due |-> debounced.now + DebounceDelay,
                              args |-> args, call |-> Len(debounced.calls) + 1]},
          !.timeoutId = <<debounced.nextTimer>>,
          !.nextTimer = @ + 1,
          !.calls = Append(@, [at |-> debounced.now, args |-> args, invoked |-> 0,
                               invokedAt |-> <<>>, invokedWith |-> <<>>,
                               resolved |-> <<>>])]
  /\ UNCHANGED <<engineVars, pageVars, uiVars>>

\* the callback of timer, which fires at its due time or later
TimerCallback(timer, at) ==
  [debounced EXCEPT
     !.now = at,
     !.timers = @ \ {timer},
     !.timeoutId = <<>>,
     !.calls[timer.call] =
        [@ EXCEPT !.invoked = @ + 1, !.invokedAt = <<at>>, !.invokedWith = <<timer.args>>,
                  !.resolved = IF @ = <<>> THEN <<validationFn(timer.args)>> ELSE @]]

\* a timer fires: the one that is due first
TimerFires ==
  /\ \E timer \in debounced.timers :
       /\ \A other \in debounced.timers : timer.due <= other.due
       /\ debounced' = TimerCallback(timer, Later(debounced.now, timer.due))
  /\ UNCHANGED <<engineVars, pageVars, uiVars>>

\* time passes
Wait(step) ==
  /\ debounced.waits < MaxWaits
  /\ debounced' = [debounced EXCEPT !.now = @ + step, !.waits = @ + 1]
  /\ UNCHANGED <<engineVars, pageVars, uiVars>>

(***************************************************************************)
(* main.js, initFormHandling: the contact form with a blur and a focus     *)
(* listener on each input and a submit listener on the form.  Each input   *)
(* stands in a form group of its own; a group holds its error elements in  *)
(* document order.  The element that has the focus is an input, the submit *)
(* button or the body.                                                     *)
(***************************************************************************)
\* form.querySelectorAll('input, select, textarea'), in document order
ContactInputs == <<"name", "email", "phone", "service", "message">>

\* the inputs of a form that has no phone input
ContactInputsNoPhone == <<"name", "email", "service", "message">>

\* the forms the script may find
ContactLayouts == {ContactInputs, ContactInputsNoPhone}

\* the names of the inputs
InputSet(inputs) == {inputs[i] : i \in 1..Len(inputs)}

\* what the user enters into an input, besides nothing
ContactValues ==
  [name |-> {Chars("Jo")}, email |-> {Chars("bad"), Chars("jo@x.co")}, phone |-> {Chars("5551234567")},
   service |-> {Chars("ac-repair")}, message |-> {Chars("<script")}]

\* the submit button of the form
SubmitButton == "button"

\* document.body, which has the focus when no control has it
Body == "body"

\* the form when initFormHandling() has run
ContactLoaded(inputs) ==
  contactForm = [inputs |-> inputs,
                 values |-> [i \in InputSet(inputs) |-> <<>>],
                 errorElements |-> [i \in InputSet(inputs) |-> <<>>],
                 groupError |-> [i \in InputSet(inputs) |-> FALSE],
                 ariaInvalid |-> [i \in InputSet(inputs) |-> FALSE],
                 focused |-> Body, hidden |-> FALSE, successMessages |-> 0,
                 event |-> "load"]

\* clearFieldError(input): the class and the first error element of the
\* input's group and the input's aria-invalid are removed
clearFieldError(form, input) ==
  [form EXCEPT !.groupError[input] = FALSE,
               !.errorElements[input] = IF @ = <<>> THEN @ ELSE Tail(@),
               !.ariaInvalid[input] = FALSE]

\* what displayFieldError does after clearFieldError(input)
AppendError(form, input, r) ==
  IF ~r.valid /\ r.error # null /\ r.error # ""
  THEN [form EXCEPT !.groupError[input] = TRUE,
                    !.errorElements[input] = Append(@, r.error),
                    !.ariaInvalid[input] = TRUE]
  ELSE form

\* displayFieldError(input, result)
displayFieldError(form, input, r) ==
  IF Threw(r) THEN form ELSE AppendError(clearFieldError(form, input), input, r)

\* the blur listener of input
BlurListener(form, input) ==
  displayFieldError(form, input,
                    validateField(input, form.values[input], [id \in PatternIds |-> 0]).result)

\* the focus listener of input
FocusListener(form, input) == clearFieldError(form, input)

\* the element that loses the focus gets its blur event
AfterBlur(form) ==
  IF form.focused \in InputSet(form.inputs) THEN BlurListener(form, form.focused) ELSE form

\* the element that gains the focus gets its focus event
AfterFocus(form, target) ==
  [(IF target \in InputSet(form.inputs) THEN FocusListener(form, target) ELSE form)
     EXCEPT !.focused = target]

\* the focus moves to target, by the user or by target.focus(): the blur
\* and the focus event are dispatched before focus() returns, and none is
\* when target has the focus already
MoveFocus(form, target) ==
  IF form.focused = target THEN form ELSE AfterFocus(AfterBlur(form), target)

\* validation.errors.forEach(...) from the i-th entry of the Map on
RECURSIVE DisplayErrors(_, _, _)
DisplayErrors(form, errors, i) ==
  IF i > Len(errors) THEN form
  ELSE DisplayErrors(IF errors[i][1] \in InputSet(form.inputs)
                     THEN displayFieldError(form, errors[i][1],
                                            [valid |-> FALSE, error |-> errors[i][2]])
                     ELSE form,
                     errors, i + 1)

\* form.querySelector('.form__group--error'): the input of the first group
\* in document order that has the class, <<>> when no group has it
FirstErrorGroup(form) ==
  LET marked == {i \in 1..Len(form.inputs) : form.groupError[form.inputs[i]]}
  IN  IF marked = {} THEN <<>>
      ELSE <<form.inputs[CHOOSE i \in marked : \A j \in marked : i <= j]>>

\* if (firstError) ... input.focus()
FocusFirstInvalid(form) ==
  IF FirstErrorGroup(form) = <<>> THEN form ELSE MoveFocus(form, FirstErrorGroup(form)[1])

\* showFormSuccess(): the message is inserted, the form hidden and reset
showFormSuccess(form) ==
  [form EXCEPT !.hidden = TRUE, !.successMessages = @ + 1,
               !.values = [i \in InputSet(form.inputs) |-> <<>>]]

\* the submit listener once validateForm(formData) has returned validation
SubmitListener(form, validation) ==
  IF Threw(validation) THEN form
  ELSE IF ~validation.valid
  THEN FocusFirstInvalid(DisplayErrors(form, validation.errors, 1))
  ELSE showFormSuccess(form)

\* the user moves the focus to target: an input, the submit button, or
\* away from the form
ContactFocus(target) ==
  /\ ~contactForm.hidden
  /\ contactForm.focused # target
  /\ contactForm' = [MoveFocus(contactForm, target)
                       EXCEPT !.event = IF target \in InputSet(contactForm.inputs)
                                        THEN "focus" ELSE "blur"]
  /\ UNCHANGED components
  /\ UNCHANGED <<engineVars, pageVars, scriptVars>>

\* the user changes the value of the input that has the focus
ContactInput(value) ==
  /\ ~contactForm.hidden
  /\ contactForm.focused \in InputSet(contactForm.inputs)
  /\ value \in ContactValues[contactForm.focused] \cup {<<>>}
  /\ contactForm.values[contactForm.focused] # value
  /\ contactForm' = [contactForm EXCEPT !.values[contactForm.focused] = value,
                                        !.event = "input"]
  /\ UNCHANGED components
  /\ UNCHANGED <<engineVars, pageVars, scriptVars>>

\* a submit event on the form: the button is clicked or Enter is pressed
\* in an input
ContactSubmit ==
  /\ ~contactForm.hidden
  /\ contactForm' =
       [SubmitListener(contactForm,
                       validateForm(contactForm.values, [id \in PatternIds |-> 0]).result)
          EXCEPT !.event = "submit"]
  /\ UNCHANGED components
  /\ UNCHANGED <<engineVars, pageVars, scriptVars>>

(***************************************************************************)
(* part_000: SmoothScroller and FormEnhancer.  The page has the anchor     *)
(* links and the form that the selectors find; an event target keeps, per  *)
(* event type, the list of its listeners in the order they were added.  A  *)
(* function is the method it was made from and the bind() call that made   *)
(* it: <<>> for the method itself, the prototype property.                 *)
(***************************************************************************)
\* document.querySelectorAll('a[href^="#"]') on a page with links
PageLinks == {"nav", "cta"}

\* this.form.querySelectorAll('input, select, textarea')
FormInputs == {"input"}

\* the pages the components may run on: their links and whether a .form is there
ComponentPages == {[links |-> links, form |-> form] : links \in {{}, PageLinks},
                                                      form \in BOOLEAN}

\* the event targets and event types the components register listeners for
ListenerTargets ==
  {<<link, "click">> : link \in PageLinks}
    \cup {<<"form", "submit">>}
    \cup {<<input, type>> : input \in FormInputs, type \in {"invalid", "blur"}}

\* this.method, the function that is the prototype's property
Method(name) == [method |-> name, bound |-> <<>>]

\* this.method.bind(this): a new function at every call, here the call of
\* the n-th registering init() for target
Bind(name, n, target) == [method |-> name, bound |-> <<n, target>>]

\* target.addEventListener(type, fn): fn is appended unless it is listed
AddListener(list, fn) ==
  IF \E i \in 1..Len(list) : list[i] = fn THEN list ELSE Append(list, fn)

\* target.removeEventListener(type, fn): the listener that is fn is removed
RemoveListener(list, fn) ==
  LET Other(f) == f # fn IN SelectSeq(list, Other)

\* the components constructed on page, before init()
ComponentsLoaded(page) ==
  components = [page |-> page,
                scroller |-> [links |-> {}, initialized |-> FALSE, inits |-> 0],
                enhancer |-> [form |-> FALSE, initialized |-> FALSE, inits |-> 0],
                listeners |-> [t \in ListenerTargets |-> <<>>],
                ran |-> <<>>]

\* SmoothScroller.init()
ScrollerInit ==
  /\ components.scroller.inits < MaxInits
  /\ components' =
       IF components.scroller.initialized \/ components.page.links = {}
       THEN components
       ELSE [components EXCEPT
               !.scroller = [links |-> components.page.links, initialized |-> TRUE,
                             inits |-> @.inits + 1],
               !.listeners = [t \in ListenerTargets |->
                                IF t[2] = "click" /\ t[1] \in components.page.links
                                THEN AddListener(@[t], Bind("_handleClick",
                                                            components.scroller.inits + 1, t[1]))
                                ELSE @[t]]]
  /\ UNCHANGED contactForm
  /\ UNCHANGED <<engineVars, pageVars, scriptVars>>

\* SmoothScroller.destroy()
ScrollerDestroy ==
  /\ components' =
       [components EXCEPT
          !.scroller = [@ EXCEPT !.links = {}, !.initialized = FALSE],
          !.listeners = [t \in ListenerTargets |->
                           IF t[2] = "click" /\ t[1] \in components.scroller.links
                           THEN RemoveListener(@[t], Method("_handleClick"))
                           ELSE @[t]]]
  /\ UNCHANGED contactForm
  /\ UNCHANGED <<engineVars, pageVars, scriptVars>>

\* the method FormEnhancer registers for an event type
EnhancerMethod(type) ==
  CASE type = "submit" -> "_handleSubmit"
    [] type = "invalid" -> "_handleInvalid"
    [] type = "blur" -> "_handleBlur"

\* the targets of the form and its inputs
FormTargets == {t \in ListenerTargets : t[2] # "click"}

\* FormEnhancer.init()
EnhancerInit ==
  /\ components.enhancer.inits < MaxInits
  /\ components' =
       IF components.enhancer.initialized \/ ~components.page.form
       THEN components
       ELSE [components EXCEPT
               !.enhancer = [form |-> TRUE, initialized |-> TRUE, inits |-> @.inits + 1],
               !.listeners = [t \in ListenerTargets |->
                                IF t \in FormTargets
                                THEN AddListener(@[t], Bind(EnhancerMethod(t[2]),
                                                            components.enhancer.inits + 1, t[1]))
                                ELSE @[t]]]
  /\ UNCHANGED contactForm
  /\ UNCHANGED <<engineVars, pageVars, scriptVars>>

\* FormEnhancer.destroy()
EnhancerDestroy ==
  /\ components' =
       [components EXCEPT
          !.enhancer = [@ EXCEPT !.form = FALSE, !.initialized = FALSE],
          !.listeners = [t \in ListenerTargets |->
                           IF t \in FormTargets /\ components.enhancer.form
                           THEN RemoveListener(@[t], Method(EnhancerMethod(t[2])))
                           ELSE @[t]]]
  /\ UNCHANGED contactForm
  /\ UNCHANGED <<engineVars, pageVars, scriptVars>>

\* whether the page has the element of target
OnPage(page, target) ==
  IF target[2] = "click" THEN target[1] \in page.links ELSE page.form

\* an event of the type is dispatched on the target: its listeners run, in
\* the order they were added
Dispatch(target) ==
  /\ OnPage(components.page, target)
  /\ components' =
       [components EXCEPT
          !.ran = <<[target |-> target, handlers |-> components.listeners[target],
                     scroller |-> components.scroller.initialized,
                     enhancer |-> components.enhancer.initialized]>>]
  /\ UNCHANGED contactForm
  /\ UNCHANGED <<engineVars, pageVars, scriptVars>>

\* the scripts before any event
ScriptsInit ==
  /\ DebouncedInit
  /\ ContactLoaded(ContactInputs)
  /\ ComponentsLoaded([links |-> PageLinks, form |-> TRUE])

(***************************************************************************)
(* The state machine: a caller calls validateField, validateForm or        *)
(* validateFieldsFast and takes the result.  The state that outlives a     *)
(* call is the rule table and the lastIndex of its three patterns.         *)
(***************************************************************************)
NoCall == [op |-> "none"]

Init ==
  /\ pc = "idle"
  /\ call = NoCall
  /\ result = null
  /\ trace = <<>>
  /\ console = <<>>
  /\ lastIndex = [id \in PatternIds |-> 0]
  /\ completed = 0
  /\ ruleTable = VALIDATION_RULES
  /\ PageInit
  /\ ScriptsInit

\* the call described by frame returns with outcome r, having executed what
\* executed records and called validateField for the keys
Returns(frame, r, executed, keys) ==
  /\ result' = r.result
  /\ trace' = executed
  /\ console' = r.console
  /\ lastIndex' = r.lastIndex
  /\ call' = frame
  /\ pc' = "returned"
  /\ ruleTable' = TableAfter(ruleTable, keys)
  /\ UNCHANGED completed
  /\ UNCHANGED <<pageVars, scriptVars, uiVars>>

\* the trace of a validateField call with outcome r
FieldTrace(r) == [checks |-> r.checks, invoked |-> r.invoked]

\* the trace of a validateForm or validateFieldsFast call with outcome r
LoopTrace(r) == [calls |-> r.calls]

\* the field names of the validateField calls that outcome r records
CalledKeys(r) == {r.calls[i][1] : i \in 1..Len(r.calls)}

\* a validateForm or validateFieldsFast call described by frame returns
\* with outcome r
LoopReturns(frame, r) == Returns(frame, r, LoopTrace(r), CalledKeys(r))

\* a validateField call described by frame returns with outcome r
FieldReturns(frame, r) == Returns(frame, r, FieldTrace(r), {frame.fieldName})

CallValidateField(fieldName, value) ==
  /\ pc = "idle"
  /\ FieldReturns([op |-> "validateField", fieldName |-> fieldName, value |-> value],
                  validateField(fieldName, value, lastIndex))

CallValidateForm(formData) ==
  /\ pc = "idle"
  /\ LoopReturns([op |-> "validateForm", formData |-> formData],
                 validateForm(formData, lastIndex))

CallValidateFieldsFast(entries) ==
  /\ pc = "idle"
  /\ LoopReturns([op |-> "validateFieldsFast", fields |-> entries],
                 validateFieldsFast(entries, lastIndex))

CallSanitizeString(value) ==
  /\ pc = "idle"
  /\ Returns([op |-> "sanitizeString", value |-> value],
             [result |-> sanitizeString(value), console |-> <<>>, lastIndex |-> lastIndex],
             <<>>, {})

\* the caller has taken the result
Return ==
  /\ pc = "returned"
  /\ pc' = "idle"
  /\ call' = NoCall
  /\ result' = null
  /\ trace' = <<>>
  /\ console' = <<>>
  /\ completed' = IF completed < MaxCalls THEN completed + 1 ELSE completed
  /\ UNCHANGED <<lastIndex, ruleTable>>
  /\ UNCHANGED <<pageVars, scriptVars, uiVars>>

Next ==
  \/ \E fieldName \in FieldNames : \E value \in Values : CallValidateField(fieldName, value)
  \/ \E formData \in FormRecords : CallValidateForm(formData)
  \/ \E entries \in FastEntries : CallValidateFieldsFast(entries)
  \/ Return

Spec == Init /\ [][Next]_vars

\* the calls of sanitizeString
NextSanitize ==
  \/ \E value \in SanitizeValues : CallSanitizeString(value)
  \/ Return

SpecSanitize == Init /\ [][NextSanitize]_vars

\* a rule table whose name rule has minLength above maxLength
MalformedRules ==
  [VALIDATION_RULES EXCEPT !["name"] = [VALIDATION_RULES["name"] EXCEPT !.minLength = 101]]

\* the rule tables the module may be written with
ConfiguredTables == {VALIDATION_RULES, MalformedRules}

\* the module loaded with one of the tables: the IIFE creates and freezes
\* the table and exports the functions, and runs no check of the rules
InitConfig ==
  /\ pc = "idle"
  /\ call = NoCall
  /\ result = null
  /\ trace = <<>>
  /\ console = <<>>
  /\ lastIndex = [id \in PatternIds |-> 0]
  /\ completed = 0
  /\ ruleTable \in ConfiguredTables
  /\ PageInit
  /\ ScriptsInit

SpecConfig == InitConfig /\ [][Next]_vars

\* the validation engine before any call
EngineIdle ==
  /\ pc = "idle"
  /\ call = NoCall
  /\ result = null
  /\ trace = <<>>
  /\ console = <<>>
  /\ lastIndex = [id \in PatternIds |-> 0]
  /\ completed = 0
  /\ ruleTable = VALIDATION_RULES

\* README.md's script has run initializeForm() on a page with or without a
\* stored draft
InitSubmit == EngineIdle /\ ScriptsInit /\ \E storage \in StoredDrafts : PageLoaded(storage)

\* the events the page of README.md handles
NextSubmit ==
  \/ Submit
  \/ \E succeeded \in BOOLEAN : ApiSettles(succeeded)
  \/ \E control \in ControlSet : \E value \in ControlValues[control] : Input(control, value)
  \/ \E step \in TickSteps : Tick(step)

SpecSubmit == InitSubmit /\ [][NextSubmit]_vars

\* main.js has run initFormHandling() on one of the forms
InitContact ==
  /\ EngineIdle
  /\ PageInit
  /\ DebouncedInit
  /\ ComponentsLoaded([links |-> PageLinks, form |-> TRUE])
  /\ \E inputs \in ContactLayouts : ContactLoaded(inputs)

\* the events the contact form handles
NextContact ==
  \/ \E target \in InputSet(ContactInputs) \cup {SubmitButton, Body} : ContactFocus(target)
  \/ \E value \in UNION {ContactValues[i] : i \in InputSet(ContactInputs)} \cup {<<>>} :
       ContactInput(value)
  \/ ContactSubmit

SpecContact == InitContact /\ [][NextContact]_vars

\* the components constructed on one of the pages
InitComponents ==
  /\ EngineIdle
  /\ PageInit
  /\ DebouncedInit
  /\ ContactLoaded(ContactInputs)
  /\ \E page \in ComponentPages : ComponentsLoaded(page)

\* the calls of the components' methods and the events of the page
NextComponents ==
  \/ ScrollerInit
  \/ ScrollerDestroy
  \/ EnhancerInit
  \/ EnhancerDestroy
  \/ \E target \in ListenerTargets : Dispatch(target)

SpecComponents == InitComponents /\ [][NextComponents]_vars

\* the calls of a debounced validator and its timers
NextDebounce ==
  \/ \E args \in DebouncedArgs : CallDebounced(args)
  \/ TimerFires
  \/ \E step \in WaitSteps : Wait(step)

SpecDebounce == Init /\ [][NextDebounce]_vars

\* a timer that was set fires
SpecSubmitFair == SpecSubmit /\ WF_vars(\E succeeded \in BOOLEAN : ApiSettles(succeeded))

(***************************************************************************)
(* Properties.                                                             *)
(***************************************************************************)
\* a validateField call has returned
FieldReturned == pc = "returned" /\ call.op = "validateField"

\* a validateField call for a key of the rule table has returned
KnownFieldReturned == FieldReturned /\ call.fieldName \in RuleKeySet

\* a validateForm call has returned
FormReturned == pc = "returned" /\ call.op = "validateForm"

\* lastIndex of the rule patterns when the module is loaded
FreshLastIndex == [id \in PatternIds |-> 0]

\* the first check of the claimed order that stops validateField on the
\* sanitized value s of a field with the given rules: the check that fails,
\* "optional" for the optional-and-empty success, "none" when all pass
DecisiveCheck(rules, s) ==
  IF rules.required /\ s = <<>> THEN "required"
  ELSE IF s = <<>> THEN "optional"
  ELSE IF Has(rules, "minLength") /\ JSLength(s) < rules.minLength THEN "minLength"
  ELSE IF Has(rules, "maxLength") /\ JSLength(s) > rules.maxLength THEN "maxLength"
  ELSE IF Has(rules, "pattern") /\ ~PatternMatches(rules.pattern, s) THEN "pattern"
  ELSE IF Has(rules, "additionalValidation") /\ AdditionalValidation(rules, s) # null
       THEN "custom"
  ELSE "none"

\* what the custom check of the rule says about s, null without a custom check
CustomVerdict(rules, s) ==
  IF Has(rules, "additionalValidation") THEN AdditionalValidation(rules, s) ELSE null

\* C1: for a known field, validateField returns the failure of the first check
\* that fails in the order required, minLength, maxLength, pattern, custom: the
\* last check it reaches is that one, a check before the custom check that
\* fails keeps the custom check from being invoked and its message (and the
\* pattern's default message) from being reported, a pattern failure reports
\* the rule's default message and a custom failure the custom check's message.
C1_FirstFailureWins ==
  KnownFieldReturned =>
    LET rules == VALIDATION_RULES[call.fieldName]
        s == Sanitize(rules, call.value)
        d == DecisiveCheck(rules, s)
        early == {"required", "optional", "minLength", "maxLength"}
    IN  /\ result.valid <=> d \in {"optional", "none"}
        /\ d # "none" => trace.checks[Len(trace.checks)] = d
        /\ d \in early \cup {"pattern"} => ~trace.invoked
        /\ d \in early \cup {"pattern"} /\ CustomVerdict(rules, s) # null =>
             result.error # CustomVerdict(rules, s)
        /\ d \in early /\ Has(rules, "pattern") => result.error # rules.message
        /\ d = "pattern" => result.error = rules.message
        /\ d = "custom" => result.error = AdditionalValidation(rules, s) /\ trace.invoked

\* C1 witness: the pattern check fails on a value the custom check would also
\* reject, and the default message is what comes back
C1_Witness ==
  /\ KnownFieldReturned
  /\ LET rules == VALIDATION_RULES[call.fieldName]
         s == Sanitize(rules, call.value)
     IN  /\ DecisiveCheck(rules, s) = "pattern"
         /\ CustomVerdict(rules, s) # null
         /\ result.error = rules.message

\* the result of validateField for one field of the record the form call got
PerField(fieldName) ==
  validateField(fieldName, FormValue(call.formData, fieldName), FreshLastIndex).result

\* C2: the result of validateForm has valid equal to the conjunction of the
\* validities of the five fields, errors keyed by exactly the invalid fields,
\* and sanitizedData keyed by exactly the five fields.
C2_FormAggregates ==
  FormReturned =>
    /\ result.valid <=> \A f \in RuleKeySet : PerField(f).valid
    /\ MapKeys(result.errors) = {f \in RuleKeySet : ~PerField(f).valid}
    /\ DOMAIN result.sanitizedData = RuleKeySet

\* C2 witness: a record with an invalid field followed by valid ones
C2_Witness ==
  /\ FormReturned
  /\ ~result.valid
  /\ ~PerField("name").valid
  /\ PerField("message").valid
  /\ "name" \in DOMAIN result.sanitizedData

\* C3: every result of validateField has error null when valid is true and a
\* non-empty string when valid is false.
C3_ErrorIffInvalid ==
  FieldReturned =>
    /\ result.valid => result.error = null
    /\ ~result.valid => result.error # null /\ result.error # ""

\* C3 witness: an invalid result carrying a message
C3_Witness == FieldReturned /\ ~result.valid /\ result.error = "Please enter a valid phone number"

\* C4 (as claimed): for a field name that is not a key of the rule table the
\* result is valid, without error, with the trimmed raw value as
\* sanitizedValue, and a warning is written.
C4_UnknownFieldTrimmed ==
  FieldReturned /\ call.fieldName \notin RuleKeySet =>
    /\ result.valid
    /\ result.error = null
    /\ result.sanitizedValue = Trim(call.value)
    /\ console # <<>>

\* C5: for an optional field a value that is empty after sanitization is
\* valid without error, and no length, pattern or custom check is reached.
C5_OptionalEmptyValid ==
  KnownFieldReturned /\ ~VALIDATION_RULES[call.fieldName].required
    /\ Sanitize(VALIDATION_RULES[call.fieldName], call.value) = <<>> =>
    /\ result.valid
    /\ result.error = null
    /\ ~trace.invoked
    /\ \A i \in 1..Len(trace.checks) :
         trace.checks[i] \notin {"minLength", "maxLength", "pattern", "custom"}

\* C5 witness: the message field called with whitespace only
C5_Witness ==
  /\ FieldReturned
  /\ call.fieldName = "message"
  /\ call.value # <<>>
  /\ result.sanitizedValue = <<>>
  /\ result.valid

\* the label of each required field in the claim's message
RequiredLabel == [name |-> "Name", email |-> "Email", phone |-> "Phone", service |-> "Service"]

\* C6: for a required field a value that is empty after sanitization fails
\* with "<Field> is required"; no later check is reached.
C6_RequiredEmptyFails ==
  KnownFieldReturned /\ VALIDATION_RULES[call.fieldName].required
    /\ Sanitize(VALIDATION_RULES[call.fieldName], call.value) = <<>> =>
    /\ ~result.valid
    /\ result.error = RequiredLabel[call.fieldName] \o " is required"
    /\ trace.checks = <<"required">>
    /\ ~trace.invoked

\* C6 witness: a required field called with whitespace only
C6_Witness ==
  /\ FieldReturned
  /\ call.fieldName = "phone"
  /\ call.value # <<>>
  /\ result.sanitizedValue = <<>>
  /\ result.error = "Phone is required"

\* raw values that differ from v in surrounding whitespace or in letter case
Variants(v) ==
  {<<" ">> \o v, v \o <<"\t">>, <<"\n">> \o v \o <<" ", " ">>,
   ToLowerCase(v), [i \in 1..Len(v) |-> UpperChar(v[i])]}

\* C7: for a known field the result is a function of the sanitized value:
\* sanitizedValue is the sanitizer's output, validating the sanitized value
\* gives the same result, and so does every variant of the raw value with the
\* same sanitized value.
C7_DependsOnSanitizedOnly ==
  KnownFieldReturned =>
    LET rules == VALIDATION_RULES[call.fieldName]
        s == Sanitize(rules, call.value)
    IN  /\ result.sanitizedValue = s
        /\ result = validateField(call.fieldName, s, FreshLastIndex).result
        /\ \A v \in Variants(call.value) :
             Sanitize(rules, v) = s =>
               validateField(call.fieldName, v, FreshLastIndex).result = result

\* C7 witness: an email accepted although the raw value has surrounding
\* whitespace and capitals
C7_Witness ==
  /\ FieldReturned
  /\ call.fieldName = "email"
  /\ call.value = Chars("  USER@Example.com ")
  /\ result.sanitizedValue = Chars("user@example.com")
  /\ result.valid

\* C8: the sanitizer of every rule is idempotent: sanitizing the sanitized
\* value a call returned gives that value again.
C8_SanitizeIdempotent ==
  KnownFieldReturned =>
    LET rules == VALIDATION_RULES[call.fieldName]
    IN  /\ Sanitize(rules, Sanitize(rules, call.value)) = Sanitize(rules, call.value)
        /\ Sanitize(rules, result.sanitizedValue) = result.sanitizedValue

\* C8 witness: a sanitizer that changed the raw value
C8_Witness ==
  /\ FieldReturned
  /\ call.fieldName = "name"
  /\ call.value = Chars("  a")
  /\ result.sanitizedValue = Chars("a")

\* C9: whatever calls came before, a call returns what the same call returns
\* right after the module is loaded, and the rule patterns keep lastIndex 0.
C9_HistoryIndependent ==
  /\ lastIndex = FreshLastIndex
  /\ FieldReturned =>
       result = validateField(call.fieldName, call.value, FreshLastIndex).result
  /\ FormReturned => result = validateForm(call.formData, FreshLastIndex).result

\* C9 witness: a name accepted by a call that is not the first one
C9_Witness ==
  /\ FieldReturned
  /\ completed >= 1
  /\ call.fieldName = "name"
  /\ call.value = Chars("Jo")
  /\ result.valid

\* the record with exactly the rule-table keys, a missing one as ''
Normalised(formData) ==
  [f \in RuleKeySet |-> IF f \in DOMAIN formData THEN formData[f] ELSE <<>>]

\* C10: validateForm evaluates exactly the five rule-table fields, each once,
\* a missing one as the empty string, and its result is that of the record
\* restricted to the rule-table keys.
C10_OnlyRuleFields ==
  FormReturned =>
    /\ Len(trace.calls) = Cardinality(RuleKeySet)
    /\ {trace.calls[i][1] : i \in 1..Len(trace.calls)} = RuleKeySet
    /\ \A i \in 1..Len(trace.calls) :
         trace.calls[i][2] = Normalised(call.formData)[trace.calls[i][1]]
    /\ result = validateForm(Normalised(call.formData), FreshLastIndex).result

\* C10 witness: a record with an unknown key and without the name key
C10_Witness ==
  /\ FormReturned
  /\ "company" \in DOMAIN call.formData
  /\ "name" \notin DOMAIN call.formData
  /\ MapKeys(result.errors) = {"name"}

\* the declared order of the rule table, as the claim gives it
DeclaredOrder == <<"name", "email", "phone", "service", "message">>

\* C11: validateForm evaluates the fields in the order name, email, phone,
\* service, message on every call, and the entries of errors are the invalid
\* fields in that order, so the first entry is the first invalid field.
C11_ErrorsInDeclaredOrder ==
  FormReturned =>
    LET Invalid(f) == ~PerField(f).valid
    IN  /\ [i \in 1..Len(trace.calls) |-> trace.calls[i][1]] = DeclaredOrder
        /\ [i \in 1..Len(result.errors) |-> result.errors[i][1]]
             = SelectSeq(DeclaredOrder, Invalid)

\* C11 witness: a later call whose first invalid field is not the first field
\* of the table and is followed by another invalid field
C11_Witness ==
  /\ FormReturned
  /\ completed >= 1
  /\ Len(result.errors) >= 2
  /\ result.errors[1][1] = "email"
  /\ result.errors[2][1] = "service"

\* C12: for every record of strings validateForm returns a result object and
\* throws nothing; an invalid record comes back with valid false and its
\* errors.
C12_FormNeverThrows ==
  FormReturned =>
    /\ ~Threw(result)
    /\ DOMAIN result = {"valid", "errors", "sanitizedData"}
    /\ result.valid \in BOOLEAN
    /\ ~result.valid <=> result.errors # <<>>

\* C12 witness: a record without some keys, invalid, answered with a result
C12_Witness ==
  /\ FormReturned
  /\ "email" \notin DOMAIN call.formData
  /\ "message" \notin DOMAIN call.formData
  /\ ~Threw(result)
  /\ ~result.valid
  /\ "email" \in MapKeys(result.errors)

\* C13: no call of validateField, validateForm or validateFieldsFast changes
\* the rule table: it keeps its five keys and every rule keeps the
\* constraints of the literal.
C13_RuleTableUnchanged ==
  /\ DOMAIN ruleTable = {"name", "email", "phone", "service", "message"}
  /\ \A f \in DOMAIN ruleTable : ruleTable[f] = VALIDATION_RULES[f]

\* C13 witness: validateFieldsFast has returned after an earlier call, having
\* called validateField for a rule without minLength
C13_Witness ==
  /\ pc = "returned"
  /\ call.op = "validateFieldsFast"
  /\ completed >= 1
  /\ \E i \in 1..Len(trace.calls) : trace.calls[i][1] = "email"
  /\ ruleTable = VALIDATION_RULES

\* ".." occurs in s
DoubleDot(s) == \E i \in 1..(Len(s) - 1) : SubSeq(s, i, i + 1) = <<".", ".">>

\* the positions of '@' in s
AtSigns(s) == {i \in 1..Len(s) : s[i] = "@"}

\* s has the shape local@domain.tld: no whitespace, a single '@' after a
\* non-empty local part, and in what follows the '@' a dot with at least one
\* character on each side
EmailShape(s) ==
  /\ \A i \in 1..Len(s) : ~IsWhite(s[i])
  /\ Cardinality(AtSigns(s)) = 1
  /\ LET at == CHOOSE i \in AtSigns(s) : TRUE
     IN  /\ at > 1
         /\ \E j \in (at + 2)..(Len(s) - 1) : s[j] = "."

\* the characters of s before its first '@'
BeforeAt(s) == SubSeq(s, 1, (CHOOSE i \in AtSigns(s) : \A j \in AtSigns(s) : i <= j) - 1)

\* C14: validateField('email', v) is valid exactly when the trimmed,
\* lower-cased value is non-empty, has length at most 254, has the shape
\* local@domain.tld, holds no two consecutive dots and has a local part of
\* length at most 64; a value of that shape and length with consecutive dots
\* fails with the consecutive-dots message.  Length is the length
\* validateField measures.
C14_EmailValidity ==
  FieldReturned /\ call.fieldName = "email" =>
    LET s == ToLowerCase(Trim(call.value))
    IN  /\ result.valid <=>
             /\ s # <<>>
             /\ JSLength(s) <= 254
             /\ EmailShape(s)
             /\ ~DoubleDot(s)
             /\ JSLength(BeforeAt(s)) <= 64
        /\ JSLength(s) <= 254 /\ EmailShape(s) /\ DoubleDot(s) =>
             ~result.valid /\ result.error = "Email cannot contain consecutive dots"

\* C14 witness: an address of the right shape with consecutive dots is refused
C14_Witness ==
  /\ FieldReturned
  /\ call.fieldName = "email"
  /\ call.value = Chars("a..b@example.com")
  /\ result.error = "Email cannot contain consecutive dots"

\* the number of digits of s
DigitCount(s) == Cardinality({i \in 1..Len(s) : IsDigit(s[i])})

\* what the phone claim says for a given set of admitted blank characters
PhoneValidity(blanks) ==
  FieldReturned /\ call.fieldName = "phone" =>
    LET s == Trim(call.value)
    IN  /\ result.valid <=>
             /\ JSLength(s) >= 10
             /\ JSLength(s) <= 20
             /\ \A i \in 1..Len(s) :
                  IsDigit(s[i]) \/ s[i] \in blanks \/ s[i] \in {"-", "(", ")", "+"}
             /\ DigitCount(s) >= 10
             /\ DigitCount(s) <= 15
        /\ DigitCount(s) < 10 => ~result.valid

\* C15 (as claimed): validateField('phone', v) is valid exactly when the
\* trimmed value has 10 to 20 characters, consists only of digits, spaces,
\* hyphens, parentheses and plus signs, and holds 10 to 15 digits.
C15_PhoneSpacesOnly == PhoneValidity({" "})

\* C15 (amended): the same with every whitespace character admitted where the
\* claim admits spaces.
C15_PhoneValidity == PhoneValidity(WhiteSpace)

\* C15 witness: a number whose groups are separated by tabs is accepted
C15_Witness ==
  /\ FieldReturned
  /\ call.fieldName = "phone"
  /\ call.value = Chars("555\t123\t4567")
  /\ result.valid

\* the seven service identifiers of the claim
ServiceIds ==
  {Chars("ac-installation"), Chars("ac-repair"), Chars("ac-maintenance"),
   Chars("heating-installation"), Chars("heating-repair"), Chars("emergency-service"),
   Chars("other")}

\* C16: validateField('service', v) is valid exactly when the trimmed value is
\* one of the seven identifiers; another non-empty value fails with the
\* membership message and the empty value with the required message.
C16_ServiceValidity ==
  FieldReturned /\ call.fieldName = "service" =>
    LET s == Trim(call.value)
    IN  /\ result.valid <=> s \in ServiceIds
        /\ s \notin ServiceIds /\ s # <<>> =>
             result.error = "Please select a valid service option"
        /\ s = <<>> => result.error = "Service is required"

\* C16 witness: an identifier in capitals is refused with the membership message
C16_Witness ==
  /\ FieldReturned
  /\ call.fieldName = "service"
  /\ call.value = Chars("AC-Repair")
  /\ result.error = "Please select a valid service option"

\* C17: validateField('message', v) is valid exactly when the sanitized
\* value is empty, or has length at most 1000, at most 2 URLs, no "<script"
\* and no spam keyword; more than 2 URLs fail with the too-many-links message
\* and 1 or 2 URLs alone do not fail.  Length is the length validateField
\* measures.
C17_MessageValidity ==
  FieldReturned /\ call.fieldName = "message" =>
    LET s == CollapseWhite(Trim(call.value))
        urls == UrlMatchCount(s, 1)
    IN  /\ result.valid <=>
             \/ s = <<>>
             \/ /\ JSLength(s) <= 1000
                /\ urls <= 2
                /\ ~ContainsIgnoreCase(s, Chars("<script"))
                /\ ~SpamPatternTest(s)
        /\ JSLength(s) <= 1000 /\ urls > 2 =>
             result.error = "Message contains too many links"
        /\ urls \in {1, 2} => result.error # "Message contains too many links"
        /\ result.error = "Message contains prohibited content" =>
             ContainsIgnoreCase(s, Chars("<script")) \/ SpamPatternTest(s)

\* C17 witness: a message with two URLs is accepted
C17_Witness ==
  /\ FieldReturned
  /\ call.fieldName = "message"
  /\ call.value = Chars("see http://a.b https://c.d")
  /\ result.valid

\* C18: validateField('name', v) is valid exactly when the sanitized value
\* has length 2 to 100 and consists of letters, spaces, hyphens and
\* apostrophes; length 1 fails with the minimum-length message and length
\* above 100 with the maximum-length message.  Length is the length
\* validateField measures.
C18_NameValidity ==
  FieldReturned /\ call.fieldName = "name" =>
    LET s == CollapseWhite(Trim(call.value))
    IN  /\ result.valid <=>
             /\ JSLength(s) >= 2
             /\ JSLength(s) <= 100
             /\ \A i \in 1..Len(s) : IsLetter(s[i]) \/ s[i] \in {" ", "-", "'"}
        /\ JSLength(s) = 1 => result.error = "Name must be at least 2 characters"
        /\ JSLength(s) > 100 => result.error = "Name must not exceed 100 characters"

\* C18 witness: a name of 101 characters fails with the maximum-length message
C18_Witness ==
  /\ FieldReturned
  /\ call.fieldName = "name"
  /\ call.value = Rep("a", 101)
  /\ result.error = "Name must not exceed 100 characters"

\* C19 (as claimed): the minLength and maxLength checks compare the number of
\* code points of the sanitized value: a value of at most maxLength code
\* points does not get the maximum-length message, and a non-empty value of
\* fewer than minLength code points gets the minimum-length message.
C19_LengthInCodePoints ==
  KnownFieldReturned =>
    LET rules == VALIDATION_RULES[call.fieldName]
        s == Sanitize(rules, call.value)
        label == FormatFieldName(call.fieldName)
    IN  /\ Has(rules, "maxLength") /\ Len(s) <= rules.maxLength =>
             result.error # label \o " must not exceed " \o ToString(rules.maxLength)
                                  \o " characters"
        /\ Has(rules, "minLength") /\ s # <<>> /\ Len(s) < rules.minLength =>
             result.error = label \o " must be at least " \o ToString(rules.minLength)
                                  \o " characters"

\* minLength above maxLength in some rule of the table
Malformed(table) ==
  \E f \in DOMAIN table :
    /\ Has(table[f], "minLength")
    /\ Has(table[f], "maxLength")
    /\ table[f].minLength > table[f].maxLength

SubmitStep ==
  /\ handled'.event = "submit"
  /\ handled' # handled \/ RATE_LIMIT' # RATE_LIMIT

\* the step is the completion of the simulated API call
ApiStep == Len(apiCalls') < Len(apiCalls)

\* the attempts of RATE_LIMIT that are less than windowMs old
RecentAttempts ==
  {i \in 1..Len(RATE_LIMIT.attempts) :
     clock.now - RATE_LIMIT.attempts[i] < RATE_LIMIT.windowMs}

TooManyAttempts == "Too many submission attempts. Please wait a moment and try again."

\* C21: at most one submission is in flight, and it is in flight exactly
\* while isSubmitting is true; a submit event that arrives while isSubmitting
\* is true returns at the guard: it checks no rate limit, validates nothing
\* and does not call submitForm, so no attempt is recorded and no API call
\* is added.
C21_OneInFlight ==
  /\ [](Len(apiCalls) <= 1 /\ (formState.isSubmitting <=> Len(apiCalls) = 1))
  /\ [][formState.isSubmitting =>
          /\ SubmitStep => handled'.steps = <<"guard">>
          /\ RATE_LIMIT' = RATE_LIMIT
          /\ Len(apiCalls') <= Len(apiCalls)]_vars

\* C21 witness: a submit event was dropped while a submission is in flight
C21_Witness ==
  /\ formState.isSubmitting
  /\ handled.event = "submit"
  /\ handled.steps = <<"guard">>

\* C22 (as claimed): every submit event that arrives when 3 attempts are
\* recorded within the last 60000 ms is rejected with the error message.
C22_RejectedWithError ==
  [][SubmitStep /\ Cardinality(RecentAttempts) >= 3 =>
       dom'.submitError = TooManyAttempts]_vars

\* C22 (amended): any 4 submit events that pass checkRateLimit span 60000 ms
\* or more; a submit event that arrives while no submission is in flight and
\* 3 attempts are less than 60000 ms old is rejected with the error message,
\* is not validated or submitted and is not recorded; with fewer such
\* attempts it passes.  (While a submission is in flight the event is
\* dropped at the guard and shows no message.)
C22_RateLimit ==
  /\ [](Len(handled.passed) = 4 =>
          handled.passed[4] - handled.passed[1] >= RATE_LIMIT.windowMs)
  /\ [][SubmitStep /\ ~formState.isSubmitting =>
          IF Cardinality(RecentAttempts) >= 3
          THEN /\ dom'.submitError = TooManyAttempts
               /\ handled'.steps = <<"guard", "checkRateLimit">>
               /\ handled'.passed = handled.passed
               /\ Len(RATE_LIMIT'.attempts) = Cardinality(RecentAttempts)
               /\ UNCHANGED <<apiCalls, formState>>
          ELSE /\ Len(handled'.steps) >= 3
               /\ handled'.steps[3] = "validate"]_vars

\* C22 witness: three attempts at time 0, a submit event at 60000 passed
C22_Witness ==
  /\ clock.now = 60000
  /\ handled.event = "submit"
  /\ Len(handled.passed) = 4
  /\ handled.passed[1] = 0
  /\ handled.passed[4] = 60000

\* C23: a submit event that is not dropped and passes checkRateLimit is
\* recorded as an attempt, after the attempts less than 60000 ms old, whether
\* the form validates or not.
C23_RecordedBeforeValidation ==
  [][SubmitStep /\ Len(handled'.steps) >= 3 =>
       /\ Len(RATE_LIMIT'.attempts) = Cardinality(RecentAttempts) + 1
       /\ RATE_LIMIT'.attempts[Len(RATE_LIMIT'.attempts)] = clock.now
       /\ handled'.passed = LastOf(Append(handled.passed, clock.now))]_vars

\* C23 witness: at time 0, where no API call has completed, a valid form is
\* rejected by the rate limit: the three attempts were of invalid forms
C23_Witness ==
  /\ clock.now = 0
  /\ ~formState.isSubmitting
  /\ AllFieldsValid(dom.fields)
  /\ handled.steps = <<"guard", "checkRateLimit">>
  /\ dom.submitError = TooManyAttempts

\* the submission has ended: isSubmitting false, the button enabled, the
\* loading classes removed
Settled == ~formState.isSubmitting /\ ~dom.disabled /\ ~dom.loading /\ ~dom.submitting

\* C24: every started submission eventually ends with isSubmitting false,
\* the submit button enabled and the loading classes removed, whether the
\* simulated API call succeeds or fails.
C24_SubmissionEnds == formState.isSubmitting ~> Settled

\* C24 witness: a submission has been started after an earlier one failed
C24_Witness ==
  /\ formState.isSubmitting
  /\ dom.submitError = "Unable to submit form. Please try again later."

\* C25: the draft is removed from localStorage only by a submission that
\* succeeds, and the field values change only by the user's input or by the
\* reset of a submission that succeeds; a submission that fails and a submit
\* event, rejected by the rate limit or failing validation or else, leave
\* the draft and the field values unchanged.
C25_DraftKept ==
  [][/\ DraftKey \in DOMAIN localStorage /\ DraftKey \notin DOMAIN localStorage' =>
          ApiStep /\ handled'.steps[1] = "success"
     /\ ApiStep /\ handled'.steps[1] = "error" =>
          localStorage' = localStorage /\ dom'.fields = dom.fields
     /\ ApiStep /\ handled'.steps[1] = "success" =>
          DraftKey \notin DOMAIN localStorage' /\ dom'.fields = DefaultFields
     /\ SubmitStep => localStorage' = localStorage /\ dom'.fields = dom.fields]_vars

\* C25 witness: a submission has failed and the draft is still stored
C25_Witness ==
  /\ handled.event = "api"
  /\ handled.steps[1] = "error"
  /\ DraftKey \in DOMAIN localStorage
  /\ dom.fields # DefaultFields

(***************************************************************************)
(* Properties of the debounced validator.                                  *)
(***************************************************************************)
\* the i-th call was followed by another less than the delay later
Superseded(i) ==
  /\ i < Len(debounced.calls)
  /\ debounced.calls[i + 1].at - debounced.calls[i].at < DebounceDelay

\* C26: a call that is followed by another less than the delay later never
\* has the validation function invoked for it and its promise never
\* resolves; the validation function is invoked at most once for a call,
\* with the call's arguments, no earlier than the delay after the call, and
\* the call's promise resolves with its result; once no timer is set, it
\* has been invoked exactly once for the last call.
C26_DebouncedOnce ==
  /\ \A i \in 1..Len(debounced.calls) :
       LET c == debounced.calls[i]
       IN  /\ Superseded(i) => c.invoked = 0 /\ c.resolved = <<>>
           /\ c.invoked <= 1
           /\ c.invoked = 0 => c.resolved = <<>>
           /\ c.invoked = 1 =>
                /\ c.invokedWith = <<c.args>>
                /\ c.invokedAt[1] >= c.at + DebounceDelay
                /\ c.resolved = <<validationFn(c.args)>>
  /\ debounced.calls # <<>> /\ debounced.timers = {} =>
       debounced.calls[Len(debounced.calls)].invoked = 1

\* C26 witness: three calls, each 100 ms after the previous one, and the
\* validation function invoked for the last
C26_Witness ==
  /\ Len(debounced.calls) = 3
  /\ Superseded(1)
  /\ Superseded(2)
  /\ debounced.calls[2].at = 100
  /\ debounced.calls[3].invoked = 1
  /\ debounced.calls[3].args # debounced.calls[2].args

(***************************************************************************)
(* Properties of validateFieldsFast.                                       *)
(***************************************************************************)
\* a validateFieldsFast call has returned
FastReturned == pc = "returned" /\ call.op = "validateFieldsFast"

\* the value is null
IsNull(value) == ToString(value) = ToString(null)

\* what validateField returns for the i-th entry of the argument
EntryResult(i) == validateField(call.fields[i][1], call.fields[i][2], FreshLastIndex).result

\* the entries of the argument that are invalid
InvalidEntries == {i \in 1..Len(call.fields) : ~EntryResult(i).valid}

\* C27: validateFieldsFast returns null exactly when every field of its
\* argument is valid, and then every field was evaluated; otherwise it
\* returns the result of the first invalid field in the argument's key
\* order with that field's name, and the fields after it were not
\* evaluated; a key without a rule is valid.
C27_FastFirstInvalid ==
  FastReturned =>
    /\ IsNull(result) <=> InvalidEntries = {}
    /\ InvalidEntries = {} => trace.calls = call.fields
    /\ InvalidEntries # {} =>
         LET k == CHOOSE i \in InvalidEntries : \A j \in InvalidEntries : i <= j
         IN  /\ result = [fieldName |-> call.fields[k][1],
                          valid |-> FALSE,
                          error |-> EntryResult(k).error,
                          sanitizedValue |-> EntryResult(k).sanitizedValue]
             /\ trace.calls = SubSeq(call.fields, 1, k)
    /\ \A i \in 1..Len(call.fields) :
         call.fields[i][1] \notin RuleKeySet => i \notin InvalidEntries

\* C27 witness: the first key has no rule, the second is valid, the third is
\* invalid and returned, and a fourth was not evaluated
C27_Witness ==
  /\ FastReturned
  /\ Len(call.fields) >= 4
  /\ call.fields[1][1] = "company"
  /\ ~IsNull(result)
  /\ result.fieldName = call.fields[3][1]
  /\ Len(trace.calls) = 3

\* a step of the submit listener of the contact form
ContactSubmitStep == contactForm' # contactForm /\ contactForm'.event = "submit"

\* what the submit listener leaves when validateForm returned validation
SubmitOutcome(validation) ==
  /\ (contactForm'.hidden \/ contactForm'.successMessages > contactForm.successMessages)
       => validation.valid
  /\ ~validation.valid =>
       /\ \A k \in 1..Len(validation.errors) :
            validation.errors[k][1] \in InputSet(contactForm.inputs) =>
              contactForm'.errorElements[validation.errors[k][1]] = <<validation.errors[k][2]>>
       /\ contactForm'.successMessages = contactForm.successMessages
       /\ ~contactForm'.hidden

\* C28: the submit listener shows the success message and hides the form
\* only when validateForm returned valid for the collected values; when it
\* returned invalid, every field in errors that has an input has its error
\* displayed and no success message is shown; and after any sequence of
\* blur, focus and submit events each form group holds at most one error
\* element.
C28_SubmitShowsErrors ==
  /\ [](\A i \in InputSet(contactForm.inputs) : Len(contactForm.errorElements[i]) <= 1)
  /\ [][ContactSubmitStep =>
          SubmitOutcome(validateForm(contactForm.values, [id \in PatternIds |-> 0]).result)]_vars

\* the listeners of target that a component's init() registered
Registered(target) == components.listeners[target]

\* whether the component that registers for target is initialized
Initialized(target) ==
  IF target[2] = "click" THEN components.scroller.initialized
  ELSE components.enhancer.initialized

\* C29: after destroy() every listener that the component's init()
\* registered is removed, so that a later click, submit, invalid or blur
\* event runs no handler of the component, and init(), destroy(), init()
\* leaves exactly one handler per element.
C29_DestroyRemovesListeners ==
  /\ \A target \in ListenerTargets :
       OnPage(components.page, target) =>
         Len(Registered(target)) = IF Initialized(target) THEN 1 ELSE 0
  /\ components.ran # <<>> =>
       Len(components.ran[1].handlers) =
         IF (IF components.ran[1].target[2] = "click" THEN components.ran[1].scroller
             ELSE components.ran[1].enhancer)
         THEN 1 ELSE 0

\* a call of sanitizeString has returned
SanitizeReturned == pc = "returned" /\ call.op = "sanitizeString"

\* C30: sanitizeString returns the empty string for every input that is not
\* a string, and for a string a string of at most 1000 characters without
\* '<' and '>'; applied to its own result it returns that result.
C30_SanitizeString ==
  SanitizeReturned =>
    IF call.value \in NonStrings THEN result = <<>>
    ELSE /\ JSLength(result) <= SliceLimit
         /\ \A i \in 1..Len(result) : result[i] \notin {"<", ">"}
         /\ sanitizeString(result) = result

====
